---- MODULE Spec2Model ----
(***************************************************************************)
(* osc-placement: API microversion negotiation (osc_placement/http.py),    *)
(* the revision comparator (osc_placement/version.py) and the commands     *)
(* that consult it (osc_placement/resources).                              *)
(*                                                                         *)
(* A Python string is modelled as a sequence of one-character strings, so  *)
(* that parsing a revision ("1.10" -> (1, 10, 0)) is a computation and     *)
(* not the identity.  A message is a sequence of text pieces: the literal  *)
(* parts of the format strings and the characters of the inserted          *)
(* revisions, in order.                                                    *)
(***************************************************************************)
EXTENDS Integers, Sequences, FiniteSets, TLC

(***************************************************************************)
(* Bounds                                                                  *)
(***************************************************************************)
\* longest predicate list handed to _compare
MaxPreds == 2
\* most command-level requests sent through one client
MaxRequests == 2
\* generated known-revision lists use minors 0..MaxGenMinor
MaxGenMinor == 3
\* most --allocation options on one command line
MaxAllocs == 2
\* most options on one command line of allocation candidate list
MaxOptions == 2

(***************************************************************************)
(* Strings                                                                 *)
(***************************************************************************)
DigitChars == <<"0", "1", "2", "3", "4", "5", "6", "7", "8", "9">>

IsDigit(c) == \E i \in 1..10 : DigitChars[i] = c

DigitVal(c) == (CHOOSE i \in 1..10 : DigitChars[i] = c) - 1

AllDigits(s) == Len(s) > 0 /\ \A i \in 1..Len(s) : IsDigit(s[i])

\* int(s) for a non-empty string of decimal digits
RECURSIVE ToInt(_)
ToInt(s) ==
    IF Len(s) = 0 THEN 0
    ELSE 10 * ToInt(SubSeq(s, 1, Len(s) - 1)) + DigitVal(s[Len(s)])

\* '%d' % n for n >= 0
RECURSIVE ToStr(_)
ToStr(n) ==
    IF n < 10 THEN <<DigitChars[n + 1]>>
    ELSE ToStr(n \div 10) \o <<DigitChars[(n % 10) + 1]>>

\* the revision literal 'major.minor'
V(major, minor) == ToStr(major) \o <<".">> \o ToStr(minor)

\* s.split('.')
RECURSIVE SplitAcc(_, _, _)
SplitAcc(s, cur, acc) ==
    IF s = <<>> THEN Append(acc, cur)
    ELSE IF Head(s) = "." THEN SplitAcc(Tail(s), <<>>, Append(acc, cur))
    ELSE SplitAcc(Tail(s), Append(cur, Head(s)), acc)

Split(s) == SplitAcc(s, <<>>, <<>>)

\* sep in s
Contains(s, sep) == \E i \in 1..Len(s) : s[i] = sep

\* the set of the items of a tuple
Range(s) == {s[i] : i \in 1..Len(s)}

\* s.split(sep)
RECURSIVE SplitBy(_, _)
SplitBy(s, sep) ==
    IF ~Contains(s, sep) THEN <<s>>
    ELSE LET i == CHOOSE j \in 1..Len(s) :
                      s[j] = sep /\ \A k \in 1..(j - 1) : s[k] # sep
         IN  <<SubSeq(s, 1, i - 1)>> \o SplitBy(SubSeq(s, i + 1, Len(s)), sep)

\* sep.join(parts) for a list of messages
RECURSIVE Join(_, _)
Join(sep, parts) ==
    IF Len(parts) = 0 THEN <<>>
    ELSE IF Len(parts) = 1 THEN parts[1]
    ELSE parts[1] \o sep \o Join(sep, Tail(parts))

(***************************************************************************)
(* distutils.version.StrictVersion, as version.py uses it                  *)
(*   ^(\d+) \. (\d+) (\. (\d+))? ([ab](\d+))?$                             *)
(***************************************************************************)
IsTag(c) == c \in {"a", "b"}

HasTag(s) == \E i \in 1..Len(s) : IsTag(s[i])

TagPos(s) == CHOOSE i \in 1..Len(s) : IsTag(s[i]) /\ \A j \in 1..(i - 1) : ~IsTag(s[j])

NumPart(s) == IF HasTag(s) THEN SubSeq(s, 1, TagPos(s) - 1) ELSE s

TagPart(s) == IF HasTag(s) THEN SubSeq(s, TagPos(s), Len(s)) ELSE <<>>

IsStrictVersion(s) ==
    LET parts == Split(NumPart(s))
        tag   == TagPart(s)
    IN  /\ Len(parts) \in {2, 3}
        /\ \A i \in 1..Len(parts) : AllDigits(parts[i])
        /\ (tag # <<>> => AllDigits(Tail(tag)))

\* the parsed version: (major, minor, patch) and the prerelease tag
StrictVersion(s) ==
    LET parts == Split(NumPart(s))
        tag   == TagPart(s)
    IN  [version    |-> <<ToInt(parts[1]), ToInt(parts[2]),
                          IF Len(parts) = 3 THEN ToInt(parts[3]) ELSE 0>>,
         prerelease |-> IF tag = <<>> THEN <<>>
                        ELSE <<tag[1], ToInt(Tail(tag))>>]

\* tuple comparison of two (major, minor, patch) triples: -1, 0 or 1
TupleCmp(x, y) ==
    IF x[1] # y[1] THEN (IF x[1] < y[1] THEN -1 ELSE 1)
    ELSE IF x[2] # y[2] THEN (IF x[2] < y[2] THEN -1 ELSE 1)
    ELSE IF x[3] # y[3] THEN (IF x[3] < y[3] THEN -1 ELSE 1)
    ELSE 0

\* comparison of two prerelease tags ('a' < 'b', then the number)
TagCmp(p, q) ==
    IF p[1] # q[1] THEN (IF p[1] = "a" THEN -1 ELSE 1)
    ELSE IF p[2] # q[2] THEN (IF p[2] < q[2] THEN -1 ELSE 1)
    ELSE 0

\* StrictVersion._cmp
StrictVersionCmp(x, y) ==
    IF x.version # y.version THEN TupleCmp(x.version, y.version)
    ELSE IF x.prerelease = <<>> /\ y.prerelease = <<>> THEN 0
    ELSE IF x.prerelease # <<>> /\ y.prerelease = <<>> THEN -1
    ELSE IF x.prerelease = <<>> /\ y.prerelease # <<>> THEN 1
    ELSE TagCmp(x.prerelease, y.prerelease)

(***************************************************************************)
(* version.py: the six predicates and the evaluator                        *)
(***************************************************************************)
\* the values a predicate or _compare yields: True, a message (str), or
\* the ValueError StrictVersion raises for a malformed revision
RTrue == [kind |-> "True", msg |-> <<>>]

RStr(m) == [kind |-> "str", msg |-> m]

RValueError == [kind |-> "ValueError", msg |-> <<>>]

\* operator.lt, le, eq, ne, ge, gt on two StrictVersion objects
operator(func, x, y) ==
    LET c == StrictVersionCmp(x, y)
    IN  CASE func = "lt" -> c < 0
          [] func = "le" -> c <= 0
          [] func = "eq" -> c = 0
          [] func = "ne" -> c # 0
          [] func = "ge" -> c >= 0
          [] func = "gt" -> c > 0

\* _op returns a closure; the record keeps what the closure captures
_op(func, b, msg) == [func |-> func, b |-> b, msg |-> msg]

lt(b) == _op("lt", b, <<"requires version less than ">> \o b)

le(b) == _op("le", b, <<"requires at most version ">> \o b)

eq(b) == _op("eq", b, <<"requires version ">> \o b)

ne(b) == _op("ne", b, <<"can not use version ">> \o b)

ge(b) == _op("ge", b, <<"requires at least version ">> \o b)

gt(b) == _op("gt", b, <<"requires version greater than ">> \o b)

\* a predicate that compares the two revisions as strings
Call_StringOrder(p, a) ==
    LET chars   == <<".", "0", "1", "2", "3", "4", "5", "6", "7", "8", "9">>
        Rank(c) == CHOOSE i \in 1..Len(chars) : chars[i] = c
        RECURSIVE StrCmp(_, _)
        StrCmp(x, y) ==
            IF x = <<>> /\ y = <<>> THEN 0
            ELSE IF x = <<>> THEN -1
            ELSE IF y = <<>> THEN 1
            ELSE IF Rank(Head(x)) < Rank(Head(y)) THEN -1
            ELSE IF Rank(Head(x)) > Rank(Head(y)) THEN 1
            ELSE StrCmp(Tail(x), Tail(y))
        c == StrCmp(a, p.b)
        holds == CASE p.func = "lt" -> c < 0
                   [] p.func = "le" -> c <= 0
                   [] p.func = "eq" -> c = 0
                   [] p.func = "ne" -> c # 0
                   [] p.func = "ge" -> c >= 0
                   [] p.func = "gt" -> c > 0
    IN  IF ~IsStrictVersion(a) \/ ~IsStrictVersion(p.b) THEN RValueError
        ELSE IF holds THEN RTrue
        ELSE RStr(p.msg)

\* p(a): the body of the lambda, func(StrictVersion(a), StrictVersion(b)) or msg
Call(p, a) ==
    IF ~IsStrictVersion(a) \/ ~IsStrictVersion(p.b) THEN RValueError
    ELSE IF operator(p.func, StrictVersion(a), StrictVersion(p.b)) THEN RTrue
    ELSE RStr(p.msg)

\* all(p(ver) is True for p in predicates): stops at the first predicate
\* that is not True; a predicate that raises ends the evaluation
RECURSIVE all(_, _)
all(ver, predicates) ==
    IF Len(predicates) = 0 THEN "True"
    ELSE LET r == Call(Head(predicates), ver)
         IN  IF r.kind = "ValueError" THEN "ValueError"
             ELSE IF r.kind = "True" THEN all(ver, Tail(predicates))
             ELSE "False"

\* any(p(ver) is True for p in predicates): stops at the first True
RECURSIVE any(_, _)
any(ver, predicates) ==
    IF Len(predicates) = 0 THEN "False"
    ELSE LET r == Call(Head(predicates), ver)
         IN  IF r.kind = "ValueError" THEN "ValueError"
             ELSE IF r.kind = "True" THEN "True"
             ELSE any(ver, Tail(predicates))

\* [p(ver) for p in predicates if p(ver) is not True]; raised tells that
\* a malformed revision made one of the calls raise ValueError
RECURSIVE err_detail(_, _)
err_detail(ver, predicates) ==
    IF Len(predicates) = 0 THEN [raised |-> FALSE, list |-> <<>>]
    ELSE LET r    == Call(Head(predicates), ver)
             rest == err_detail(ver, Tail(predicates))
         IN  IF r.kind = "ValueError" \/ rest.raised
             THEN [raised |-> TRUE, list |-> <<>>]
             ELSE IF r.kind = "True" THEN rest
             ELSE [raised |-> FALSE, list |-> <<r.msg>> \o rest.list]

err_msg(ver) ==
    <<"Operation or argument is not supported with version ">> \o ver \o <<"; ">>

\* a separator that does not depend on the mode
logic_AlwaysAnd(op) == <<", and ">>

logic(op) == IF op = "all" THEN <<", and ">> ELSE <<", or ">>

\* an evaluator that ignores op and always asks for every predicate
_compare_AlwaysAll(ver, predicates, op) ==
    LET Result(func, detail) ==
            IF func = "True" THEN RTrue
            ELSE IF func = "ValueError" \/ detail.raised THEN RValueError
            ELSE RStr(err_msg(ver) \o Join(logic(op), detail.list))
    IN  Result(all(ver, predicates), err_detail(ver, predicates))

_compare(ver, predicates, op) ==
    LET Result(func, detail) ==
            IF func = "True" THEN RTrue
            ELSE IF func = "ValueError" \/ detail.raised THEN RValueError
            ELSE RStr(err_msg(ver) \o Join(logic(op), detail.list))
    IN  Result(IF op = "all" THEN all(ver, predicates) ELSE any(ver, predicates),
               err_detail(ver, predicates))

(***************************************************************************)
(* version.py: compare, the hard and the soft form                         *)
(***************************************************************************)
\* a call that returned value
Returned(value) ==
    [kind |-> "return", value |-> value, exc |-> "none", msg |-> <<>>]

\* a call that raised exc(msg)
Raised(exc, msg) ==
    [kind |-> "raise", value |-> FALSE, exc |-> exc, msg |-> msg]

\* the message of the ValueError that StrictVersion raises
InvalidVersionNumber == <<"invalid version number">>

\* a compare that raises for an unsatisfied requirement whatever exc is
compare_SoftRaises(ver, predicates, exc, op) ==
    LET Finish(result) ==
            IF result.kind = "ValueError"
            THEN Raised("ValueError", InvalidVersionNumber)
            ELSE IF result # RTrue
                 THEN Raised("ValueError", result.msg)
                 ELSE Returned(TRUE)
    IN  Finish(_compare(ver, predicates, op))

\* compare(ver, *predicates, exc=exc, op=op); the ValueError of a
\* StrictVersion that cannot be parsed passes through it
compare(ver, predicates, exc, op) ==
    LET Finish(result) ==
            IF result.kind = "ValueError"
            THEN Raised("ValueError", InvalidVersionNumber)
            ELSE IF result # RTrue
                 THEN IF exc THEN Raised("ValueError", result.msg)
                             ELSE Returned(FALSE)
                 ELSE Returned(TRUE)
    IN  Finish(_compare(ver, predicates, op))

\* CheckerMixin.check_version(*predicates), on an object whose revision is ver
check_version(ver, predicates, op) == compare(ver, predicates, TRUE, op)

\* CheckerMixin.compare_version(*predicates)
compare_version(ver, predicates, op) == compare(ver, predicates, FALSE, op)

(***************************************************************************)
(* version.py: the known revisions                                         *)
(***************************************************************************)
SUPPORTED_VERSIONS ==
    <<V(1, 0), V(1, 1), V(1, 2), V(1, 3), V(1, 4), V(1, 5), V(1, 6), V(1, 7),
      V(1, 8), V(1, 9), V(1, 10), V(1, 11), V(1, 12), V(1, 13), V(1, 14),
      V(1, 15), V(1, 16), V(1, 17), V(1, 18), V(1, 19), V(1, 20), V(1, 21),
      V(1, 22), V(1, 28)>>

\* the revisions that ask for negotiation: only the major version
NEGOTIATE_VERSIONS == {<<"1">>}

\* tuple(map(int, str.split("."))) of the consistency test
_convert_to_tuple(str) ==
    LET parts == Split(str) IN [i \in 1..Len(parts) |-> ToInt(parts[i])]

\* the max version without a gap: scan the ordered list and stop just
\* before the first point where the minor sequence skips a value
RECURSIVE NoGapScan(_, _)
NoGapScan(versions, i) ==
    IF i = Len(versions) THEN versions[i]
    ELSE IF _convert_to_tuple(versions[i + 1])[2]
            = _convert_to_tuple(versions[i])[2] + 1
         THEN NoGapScan(versions, i + 1)
         ELSE versions[i]

\* a guessed maximum that is the last known revision, gap or not
MaxVersionNoGap_Last(versions) == versions[Len(versions)]

MaxVersionNoGap(versions) == NoGapScan(versions, 1)

(***************************************************************************)
(* Inputs                                                                  *)
(***************************************************************************)
\* the ordered list 1.m for the minors m of a set
RECURSIVE ListOfMinors(_)
ListOfMinors(S) ==
    IF S = {} THEN <<>>
    ELSE LET m == CHOOSE x \in S : \A y \in S : x >= y
         IN  Append(ListOfMinors(S \ {m}), V(1, m))

\* 1.0 .. 1.12 followed by 1.14: the list that skips 1.13
GapAfter12 == ListOfMinors((0..12) \cup {14})

\* the known-revision lists a client is built with
KnownLists ==
    {ListOfMinors(S \cup {0}) : S \in SUBSET (1..MaxGenMinor)}
        \cup {SUPPORTED_VERSIONS, GapAfter12}

\* the requested revisions: the sentinel and literals, 1.23 being in no list
RequestedVersions == NEGOTIATE_VERSIONS \cup {V(1, 0), V(1, 8), V(1, 23)}

\* the max_version a server may advertise
ServerVersions == {V(1, 1), V(1, 10), V(1, 12), V(1, 30)}

\* the server's min_version
ServerMinVersion == V(1, 0)

Methods == {"GET", "PUT"}

Urls == {"/resource_providers"}

\* the version keyword of request(): None or a revision
NoVersion == <<>>

VersionOverrides == {NoVersion, V(1, 5)}

\* the headers keyword of request(): none, or the caller's own headers
NoHeaders == <<>>

\* errors[0].detail of a response that says nothing
NoDetail == <<>>

HeaderOverrides ==
    {NoHeaders,
     [Accept |-> <<"text/plain">>],
     "OpenStack-API-Version" :> (<<"compute", " ">> \o V(1, 5))}

\* what the session does with a request: a response, or an HttpError
SessionOutcomes == {0, 404, 500}

\* the active revision and the predicate bounds the evaluator is tried on
CmpPairs == {<<0, 9>>, <<1, 0>>, <<1, 1>>, <<1, 8>>, <<1, 9>>, <<1, 10>>}

BoundPairs == {<<1, 0>>, <<1, 8>>, <<1, 9>>, <<1, 10>>}

Funcs == {"lt", "le", "eq", "ne", "ge", "gt"}

Predicate(func, b) ==
    CASE func = "lt" -> lt(b)
      [] func = "le" -> le(b)
      [] func = "eq" -> eq(b)
      [] func = "ne" -> ne(b)
      [] func = "ge" -> ge(b)
      [] func = "gt" -> gt(b)

\* the six predicates on the two bounds that string order misplaces, and
\* ge and eq on the others
Predicates ==
    {Predicate(f, V(b[1], b[2])) : f \in Funcs, b \in {<<1, 9>>, <<1, 10>>}}
    \cup {Predicate(f, V(b[1], b[2])) : f \in {"ge", "eq"}, b \in BoundPairs}

PredicateLists == UNION {[1..n -> Predicates] : n \in 0..MaxPreds}

(***************************************************************************)
(* State                                                                   *)
(***************************************************************************)
VARIABLES
    known,        \* the client's ordered list of known revisions
    requested,    \* the api_version the client is constructed with
    serverMax,    \* the max_version of the server
    pc,           \* "init" before SessionClient.__init__, "ready" after
    api_version,  \* SessionClient.api_version, NoVersion while unset
    sent,         \* the calls of session.request, in order
    probe,        \* status of the response to the probe, 0 when none
    raised,       \* what the last request() raised, if anything
    gv,           \* the last call of get_version
    cmp,          \* the last evaluation of _compare
    ret,          \* the last call of compare: what it returned or raised
    deco,         \* the last call of a method decorated with check
    cmd,          \* the command this process runs, and what came of it
    cols,         \* the output fields of one command at two revisions
    call          \* the last request(): its keywords, and what the session did

vars == <<known, requested, serverMax, pc, api_version, sent, probe, raised,
          gv, cmp, ret, deco, cmd, cols, call>>

\* what the client and the evaluator leave alone
moreVars == <<ret, deco, cmd, cols, call>>

clientVars == <<known, requested, serverMax, pc, api_version, sent, probe,
                raised, gv>>

\* the guessed maximum of the client
MAX_VERSION_NO_GAP == MaxVersionNoGap(known)

NoRaise == [exc |-> "none", status |-> 0]

NoGv == [called |-> FALSE, session_none |-> FALSE, read |-> FALSE,
         result |-> NoVersion]

NoCmp == [done |-> FALSE, ver |-> NoVersion, predicates |-> <<>>,
          op |-> "all", result |-> RTrue]

NoRet == [done |-> FALSE, exc |-> TRUE, outcome |-> Returned(TRUE)]

NoDeco == [called |-> FALSE]

NoCmd == [name |-> "none"]

\* no fields have been computed
NoCols == [done |-> FALSE]

\* request() has not been called
NoCall == [called |-> FALSE]

(***************************************************************************)
(* The server, seen through the session                                    *)
(***************************************************************************)
\* the server accepts a microversion between its min_version and max_version
ServerSupports(v) ==
    /\ StrictVersionCmp(StrictVersion(ServerMinVersion), StrictVersion(v)) <= 0
    /\ StrictVersionCmp(StrictVersion(v), StrictVersion(serverMax)) <= 0

\* the statuses GET / may answer with when sent with microversion v:
\* 200, or 406 for a microversion the server does not accept, or an
\* error that has nothing to do with the microversion
ProbeStatuses(v) == (IF ServerSupports(v) THEN {200} ELSE {406}) \cup {503}

(***************************************************************************)
(* http.py: SessionClient                                                  *)
(***************************************************************************)
SessionRequest_NoAccept(method, url, version, headers, self_api_version, raise_exc) ==
    [method    |-> method,
     url       |-> url,
     headers   |-> [h \in {"OpenStack-API-Version", "Accept"}
                          \cup DOMAIN headers |->
                     IF h \in DOMAIN headers THEN headers[h]
                     ELSE IF h = "Accept" THEN <<"*/*">>
                     ELSE <<"placement", " ">>
                          \o (IF version # NoVersion THEN version
                                                     ELSE self_api_version)],
     raise_exc |-> raise_exc]

\* the call of session.request that request() makes: headers is the
\* headers keyword of request(), and setdefault keeps what it holds
SessionRequest(method, url, version, headers, self_api_version, raise_exc) ==
    [method    |-> method,
     url       |-> url,
     headers   |-> [h \in {"OpenStack-API-Version", "Accept"}
                          \cup DOMAIN headers |->
                     IF h \in DOMAIN headers THEN headers[h]
                     ELSE IF h = "Accept" THEN <<"application/json">>
                     ELSE <<"placement", " ">>
                          \o (IF version # NoVersion THEN version
                                                     ELSE self_api_version)],
     raise_exc |-> raise_exc]

\* the osc-lib exception classes by status: the subclasses of
\* ClientException, which osc-lib defines
_http_error_to_exc ==
    [http_status \in {400, 401, 403, 404, 405, 409, 413, 501} |->
        CASE http_status = 400 -> "BadRequest"
          [] http_status = 401 -> "Unauthorized"
          [] http_status = 403 -> "Forbidden"
          [] http_status = 404 -> "NotFound"
          [] http_status = 405 -> "MethodNotAllowed"
          [] http_status = 409 -> "Conflict"
          [] http_status = 413 -> "OverLimit"
          [] http_status = 501 -> "HTTPNotImplemented"]

_wrap_http_exceptions_FirstLine(outcome, detail) ==
    LET lines == SplitBy(detail, "\n")
    IN  IF outcome = 0 THEN NoRaise
        ELSE IF 400 <= outcome /\ outcome < 500
             THEN [exc    |-> "osc_lib",
                   class  |-> IF outcome \in DOMAIN _http_error_to_exc
                              THEN _http_error_to_exc[outcome]
                              ELSE "CommandError",
                   status |-> outcome,
                   msg    |-> lines[1]]
             ELSE [exc    |-> "keystoneauth",
                   class  |-> "HttpError",
                   status |-> outcome,
                   detail |-> detail]

\* _wrap_http_exceptions: outcome is the status of the HttpError the session
\* raises, 0 when it raises none, and detail is errors[0].detail of its
\* response.  A 4xx HttpError becomes the osc-lib exception of that status
\* with the last line of detail, any other HttpError is raised as it is
_wrap_http_exceptions(outcome, detail) ==
    LET RECURSIVE lstrip(_)
        lstrip(t) == IF t # <<>> /\ Head(t) \in {" ", "\t"}
                     THEN lstrip(Tail(t)) ELSE t
        RECURSIVE rstrip(_)
        rstrip(t) == IF t # <<>> /\ t[Len(t)] \in {" ", "\t"}
                     THEN rstrip(SubSeq(t, 1, Len(t) - 1)) ELSE t
        lines == SplitBy(detail, "\n")
    IN  IF outcome = 0 THEN NoRaise
        ELSE IF 400 <= outcome /\ outcome < 500
             THEN [exc    |-> "osc_lib",
                   class  |-> IF outcome \in DOMAIN _http_error_to_exc
                              THEN _http_error_to_exc[outcome]
                              ELSE "CommandError",
                   status |-> outcome,
                   msg    |-> rstrip(lstrip(lines[Len(lines)]))]
             ELSE [exc    |-> "keystoneauth",
                   class  |-> "HttpError",
                   status |-> outcome,
                   detail |-> detail]

\* a client that also negotiates when the revision is not one it knows
NeedsNegotiation_Unknown(v) ==
    v \in NEGOTIATE_VERSIONS \/ \A i \in 1..Len(known) : known[i] # v

\* the test that decides whether negotiate_api_version talks to the server
NeedsNegotiation(v) == v \in NEGOTIATE_VERSIONS

\* a negotiation that probes again after a 406
ProbeRequests_Retry(client_ver, status) ==
    IF status = 406
    THEN <<SessionRequest("GET", "/", NoVersion, NoHeaders, client_ver, "False"),
           SessionRequest("GET", "/", NoVersion, NoHeaders, client_ver, "False")>>
    ELSE <<SessionRequest("GET", "/", NoVersion, NoHeaders, client_ver, "False")>>

\* the requests negotiate_api_version sends: one GET / with raise_exc=False
ProbeRequests(client_ver, status) ==
    <<SessionRequest("GET", "/", NoVersion, NoHeaders, client_ver, "False")>>

\* a negotiation that takes every error status for the 406 of the server
NegotiatedVersion_AnyError(status, client_ver, server_ver) ==
    IF status >= 400 THEN server_ver ELSE client_ver

\* the revision negotiate_api_version ends with
NegotiatedVersion(status, client_ver, server_ver) ==
    IF status = 406 THEN server_ver ELSE client_ver

\* SessionClient.__init__, which is negotiate_api_version
negotiate_api_version ==
    /\ pc = "init"
    /\ IF ~NeedsNegotiation(requested)
       THEN /\ api_version' = requested
            /\ UNCHANGED <<sent, probe>>
       ELSE LET client_ver == MAX_VERSION_NO_GAP
            IN  \E status \in ProbeStatuses(client_ver) :
                  /\ sent' = sent \o ProbeRequests(client_ver, status)
                  /\ probe' = status
                  /\ api_version' =
                         NegotiatedVersion(status, client_ver, serverMax)
    /\ pc' = "ready"
    /\ UNCHANGED <<known, requested, serverMax, raised, gv, cmp>>
    /\ UNCHANGED moreVars

\* the requests of commands, the probe not counted
CommandRequests == Len(sent) - (IF probe # 0 THEN 1 ELSE 0)

\* a request() that keeps the version override for the requests after it
request_Sticky(method, url, version, headers, outcome, detail) ==
    /\ pc = "ready"
    /\ CommandRequests < MaxRequests
    /\ sent' = Append(sent,
                      SessionRequest(method, url, version, headers, api_version, "unset"))
    /\ raised' = _wrap_http_exceptions(outcome, detail)
    /\ api_version' = (IF version # NoVersion THEN version ELSE api_version)
    /\ call' = [called |-> TRUE, version |-> version, headers |-> headers,
                outcome |-> outcome, detail |-> detail]
    /\ UNCHANGED <<known, requested, serverMax, pc, probe, gv, cmp>>
    /\ UNCHANGED <<ret, deco, cmd, cols>>

\* SessionClient.request, called by a command
request(method, url, version, headers, outcome, detail) ==
    /\ pc = "ready"
    /\ CommandRequests < MaxRequests
    /\ sent' = Append(sent,
                      SessionRequest(method, url, version, headers, api_version, "unset"))
    /\ raised' = _wrap_http_exceptions(outcome, detail)
    /\ call' = [called |-> TRUE, version |-> version, headers |-> headers,
                outcome |-> outcome, detail |-> detail]
    /\ UNCHANGED <<known, requested, serverMax, pc, api_version, probe, gv, cmp>>
    /\ UNCHANGED <<ret, deco, cmd, cols>>

(***************************************************************************)
(* version.py: get_version                                                 *)
(***************************************************************************)
\* the value get_version returns: the api_version attribute, or the first
\* supported version when reading the attribute raises AttributeError
get_version_result(has_attr, attr) ==
    IF has_attr THEN attr ELSE SUPPORTED_VERSIONS[1]

\* get_version(obj): session_none tells whether obj.app.client_manager.session
\* is None, has_attr whether obj.app.client_manager.placement.api_version exists
get_version(session_none, has_attr) ==
    /\ has_attr => pc = "ready"
    /\ gv' = [called       |-> TRUE,
              session_none |-> session_none,
              read         |-> TRUE,
              result       |-> get_version_result(has_attr, api_version)]
    /\ UNCHANGED <<known, requested, serverMax, pc, api_version, sent, probe,
                   raised, cmp>>
    /\ UNCHANGED moreVars

(***************************************************************************)
(* The client                                                              *)
(***************************************************************************)
Init ==
    /\ known \in KnownLists
    /\ requested \in RequestedVersions
    /\ serverMax \in ServerVersions
    /\ pc = "init"
    /\ api_version = NoVersion
    /\ sent = <<>>
    /\ probe = 0
    /\ raised = NoRaise
    /\ gv = NoGv
    /\ cmp = NoCmp
    /\ ret = NoRet
    /\ deco = NoDeco
    /\ cmd = NoCmd
    /\ cols = NoCols
    /\ call = NoCall

Request ==
    \E method \in Methods, url \in Urls, version \in VersionOverrides,
       outcome \in SessionOutcomes :
        request(method, url, version, NoHeaders, outcome, NoDetail)

GetVersion ==
    \E session_none \in BOOLEAN, has_attr \in BOOLEAN :
        get_version(session_none, has_attr)

Next ==
    \/ negotiate_api_version
    \/ Request
    \/ GetVersion

Spec == Init /\ [][Next]_vars

(***************************************************************************)
(* The evaluator on its own                                                *)
(***************************************************************************)
InitCompare ==
    /\ known = SUPPORTED_VERSIONS
    /\ requested = V(1, 0)
    /\ serverMax = V(1, 30)
    /\ pc = "init"
    /\ api_version = NoVersion
    /\ sent = <<>>
    /\ probe = 0
    /\ raised = NoRaise
    /\ gv = NoGv
    /\ ret = NoRet
    /\ deco = NoDeco
    /\ cmd = NoCmd
    /\ cols = NoCols
    /\ call = NoCall
    /\ \E v \in CmpPairs, ps \in PredicateLists, op \in {"all", "any"} :
         cmp = [done |-> FALSE, ver |-> V(v[1], v[2]), predicates |-> ps,
                op |-> op, result |-> RTrue]

\* _compare(ver, *predicates, op=op)
Evaluate ==
    /\ ~cmp.done
    /\ cmp' = [cmp EXCEPT !.done = TRUE,
                          !.result = _compare(cmp.ver, cmp.predicates, cmp.op)]
    /\ UNCHANGED <<clientVars, moreVars>>

\* compare(ver, *predicates, exc=exc, op=op) on the arguments _compare was
\* tried on
Compare ==
    /\ cmp.done
    /\ ~ret.done
    /\ \E exc \in BOOLEAN :
         ret' = [done    |-> TRUE,
                 exc     |-> exc,
                 outcome |-> compare(cmp.ver, cmp.predicates, exc, cmp.op)]
    /\ UNCHANGED <<clientVars, cmp, deco, cmd, cols, call>>

NextCompare ==
    \/ Evaluate
    \/ Compare

SpecCompare == InitCompare /\ [][NextCompare]_vars

(***************************************************************************)
(* The evaluator on revisions that may be malformed                        *)
(***************************************************************************)
\* 'abc', '.0' and '1' of the unit test, and two strings that are not of
\* the form N.M either
MalformedVersions ==
    {<<"a", "b", "c">>, <<".", "0">>, <<"1">>,
     <<"1", ".", "0", ".", "1">>, <<"1", ".", "0", "a", "1">>}

UncheckedVersions == {V(1, 0), V(1, 1)} \cup MalformedVersions

UncheckedBounds == {V(1, 0), <<"a", "b", "c">>, <<"1", ".", "0", ".", "1">>}

UncheckedPredicates == {Predicate(f, b) : f \in {"eq", "le", "gt"},
                                          b \in UncheckedBounds}

UncheckedPredicateLists ==
    UNION {[1..n -> UncheckedPredicates] : n \in 0..MaxPreds}

InitMalformed ==
    /\ known = SUPPORTED_VERSIONS
    /\ requested = V(1, 0)
    /\ serverMax = V(1, 30)
    /\ pc = "init"
    /\ api_version = NoVersion
    /\ sent = <<>>
    /\ probe = 0
    /\ raised = NoRaise
    /\ gv = NoGv
    /\ ret = NoRet
    /\ deco = NoDeco
    /\ cmd = NoCmd
    /\ cols = NoCols
    /\ call = NoCall
    /\ \E v \in UncheckedVersions, ps \in UncheckedPredicateLists,
          op \in {"all", "any"} :
         cmp = [done |-> FALSE, ver |-> v, predicates |-> ps,
                op |-> op, result |-> RTrue]

NextMalformed ==
    \/ Evaluate
    \/ Compare

SpecMalformed == InitMalformed /\ [][NextMalformed]_vars

(***************************************************************************)
(* version.py: the check decorator                                         *)
(***************************************************************************)
\* the predicates the commands decorate take_action with
CheckPredicateLists == {<<ge(V(1, 1))>>, <<ge(V(1, 10))>>, <<ge(V(1, 12))>>}

\* the positional arguments of the decorated method, after self
BodyArgs == {<<>>, <<"1", "2", "3">>}

\* what the decorated method does when it is called: return or raise
BodyOutcomes == {Returned("result"), Raised("CommandError", <<"failed">>)}

\* a decorator that calls the method before it checks the revision
inner_BodyFirst(ver, predicates, args, body) ==
    LET checked == compare(ver, predicates, TRUE, "all")
    IN  [called     |-> TRUE,
         ver        |-> ver,
         predicates |-> predicates,
         args       |-> args,
         body       |-> body,
         body_calls |-> <<args>>,
         outcome    |-> IF body.kind = "raise" \/ checked.kind = "return"
                        THEN body ELSE checked]

\* inner(self, *args) of check(*predicates): compare raises before func is
\* called, or func is called with the arguments of the call and its result
\* is the result of the call.  No command passes exc or op to check.
inner(ver, predicates, args, body) ==
    LET checked == compare(ver, predicates, TRUE, "all")
    IN  [called     |-> TRUE,
         ver        |-> ver,
         predicates |-> predicates,
         args       |-> args,
         body       |-> body,
         body_calls |-> IF checked.kind = "raise" THEN <<>> ELSE <<args>>,
         outcome    |-> IF checked.kind = "raise" THEN checked ELSE body]

\* one process runs one command: nothing has been called yet
Idle == ~deco.called /\ cmd.name = "none"

\* a call of a method decorated with check; the revision is read from the
\* object the method is called on
CheckedCall ==
    /\ Idle
    /\ \E has_attr \in BOOLEAN, predicates \in CheckPredicateLists,
          args \in BodyArgs, body \in BodyOutcomes :
         /\ has_attr => pc = "ready"
         /\ deco' = inner(get_version_result(has_attr, api_version),
                          predicates, args, body)
                     @@ [has_attr |-> has_attr]
    /\ UNCHANGED <<clientVars, cmp, ret, cmd, cols, call>>

(***************************************************************************)
(* Values the commands handle                                              *)
(*                                                                         *)
(* A Python dict is the sequence of its (key, value) pairs in insertion    *)
(* order.  A JSON object read from a response is a record; identifiers and *)
(* generations the server hands out are atoms.  A command-line string that *)
(* the code takes apart is a sequence of pieces: names, the separators     *)
(* "," and "=", and the digits of amounts.                                 *)
(***************************************************************************)
\* None
None == "None"

\* k in d
DictHas(d, k) == \E i \in 1..Len(d) : d[i][1] = k

\* d[k]
DictGet(d, k) == d[CHOOSE i \in 1..Len(d) : d[i][1] = k][2]

\* d[k] = v
DictSet(d, k, v) ==
    IF DictHas(d, k)
    THEN [i \in 1..Len(d) |-> IF d[i][1] = k THEN <<k, v>> ELSE d[i]]
    ELSE Append(d, <<k, v>>)

\* d.update(e), and dict(e) when d is empty
RECURSIVE DictUpdate(_, _)
DictUpdate(d, e) ==
    IF e = <<>> THEN d
    ELSE DictUpdate(DictSet(d, Head(e)[1], Head(e)[2]), Tail(e))

(***************************************************************************)
(* resources/allocation.py: parse_allocations                              *)
(***************************************************************************)
\* the first resource class of resources that prev_rp holds with another
\* amount, or <<>> when there is none
RECURSIVE FirstConflict(_, _)
FirstConflict(prev_rp, resources) ==
    IF resources = <<>> THEN <<>>
    ELSE LET resource == Head(resources)[1]
             value    == Head(resources)[2]
         IN  IF DictHas(prev_rp, resource) /\ DictGet(prev_rp, resource) # value
             THEN resource
             ELSE FirstConflict(prev_rp, Tail(resources))

\* the loop of parse_allocations over the strings left, with the dict built
\* so far
RECURSIVE parse_allocations_loop(_, _)
parse_allocations_loop(allocation_strings, allocations) ==
    IF allocation_strings = <<>> THEN Returned(allocations)
    ELSE
    LET allocation_string == Head(allocation_strings)
        kvs    == SplitBy(allocation_string, ",")
        pairs  == [i \in 1..Len(kvs) |-> SplitBy(kvs[i], "=")]
        parsed == DictUpdate(<<>>, pairs)
        NotRp(kv) == kv[1] # <<"rp">>
        items  == SelectSeq(parsed, NotRp)
        resources == [i \in 1..Len(items) |->
                         <<items[i][1], ToInt(items[i][2])>>]
        rp     == DictGet(parsed, <<"rp">>)
    IN  IF ~Contains(allocation_string, "=") \/ ~Contains(allocation_string, ",")
        THEN Raised("ValueError", <<"Incorrect allocation string format">>)
        ELSE IF \E i \in 1..Len(pairs) : Len(pairs[i]) # 2
        THEN Raised("ValueError",
                    <<"dictionary update sequence element has length other than 2">>)
        ELSE IF ~DictHas(parsed, <<"rp">>)
        THEN Raised("ValueError",
                    <<"Resource provider parameter is required ",
                      "for allocation string">>)
        ELSE IF \E i \in 1..Len(items) : ~AllDigits(items[i][2])
        THEN Raised("ValueError", <<"invalid literal for int() with base 10">>)
        ELSE IF ~DictHas(allocations, rp)
        THEN parse_allocations_loop(Tail(allocation_strings),
                                    DictSet(allocations, rp, resources))
        ELSE LET prev_rp  == DictGet(allocations, rp)
                 conflict == FirstConflict(prev_rp, resources)
             IN  IF conflict # <<>>
                 THEN Raised("CommandError",
                             <<"Conflict detected for ", "resource provider ">>
                             \o rp \o <<" resource class ">> \o conflict)
                 ELSE parse_allocations_loop(
                          Tail(allocation_strings),
                          DictSet(allocations, rp,
                                  DictUpdate(prev_rp, resources)))

parse_allocations(allocation_strings) ==
    parse_allocations_loop(allocation_strings, <<>>)

(***************************************************************************)
(* version.py: CheckerMixin                                                *)
(*                                                                         *)
(* A command is a CheckerMixin: self.check_version(p) and                  *)
(* self.compare_version(p) are the hard and the soft form at the revision  *)
(* get_version(self) reads, here for every predicate p the commands use.   *)
(***************************************************************************)
\* the predicates the commands hand to check_version and compare_version
CommandPredicates ==
    {ge(V(1, m)) : m \in {1, 3, 4, 8, 10, 12, 14, 16, 17, 18, 19, 21, 22, 25, 28, 38, 39}}
    \cup {lt(V(1, m)) : m \in {5, 19}}

\* the revisions a client can be at
Revisions == {V(1, m) : m \in 0..39}

\* the answers of check_version and compare_version at every revision
Checkers ==
    [ver \in Revisions |->
        [check_version   |-> [p \in CommandPredicates |->
                                 check_version(ver, <<p>>, "all")],
         compare_version |-> [p \in CommandPredicates |->
                                 compare_version(ver, <<p>>, "all").value]]]

CheckerMixin(ver) == Checkers[ver]

(***************************************************************************)
(* What a command leaves behind                                            *)
(***************************************************************************)
NoError == [exc |-> "none", msg |-> <<>>, status |-> 0]

\* an exception raised by the command itself
Err(exc, msg) == [exc |-> exc, msg |-> msg, status |-> 0]

\* the exception http.request raises for a response the session rejects
HttpErr(outcome) ==
    [exc    |-> _wrap_http_exceptions(outcome, NoDetail).exc,
     msg    |-> <<>>,
     status |-> outcome]

\* keyword arguments of http.request when there are none
NoKwargs == <<>>

\* one call of http.request by a command, with the JSON it answered
Req(method, url, kwargs, response) ==
    [method |-> method, url |-> url, kwargs |-> kwargs, response |-> response]

\* a response whose body the command does not read
NoBody == <<>>

\* the outcome of take_action
Outcome(status, error, warnings, reqs, fields, rows) ==
    [status |-> status, error |-> error, warnings |-> warnings,
     reqs |-> reqs, fields |-> fields, rows |-> rows]

\* which call of http.request fails, if any, and with which status
NoFail == [at |-> 0, status |-> 0]

FailPoints ==
    {NoFail, [at |-> 1, status |-> 409], [at |-> 2, status |-> 409],
     [at |-> 2, status |-> 500], [at |-> 3, status |-> 409]}

\* the options argparse misses: required by the parser and not given
MissingRequired(required, args) ==
    {o \in DOMAIN required : required[o] /\ args[o] = None}

\* the calls of session.request that the calls of http.request make
Issue(reqs, self_api_version) ==
    [i \in 1..Len(reqs) |->
        SessionRequest(reqs[i].method, reqs[i].url, NoVersion, NoHeaders,
                       self_api_version, "unset")]

\* utils.get_dict_properties(item, fields) on dict(resource_provider=k,
\* **props, **v)
AllocationRow(k, v, props, fields) ==
    [i \in 1..Len(fields) |->
        IF fields[i] = "resource_provider" THEN k
        ELSE IF fields[i] \in DOMAIN props THEN props[fields[i]]
        ELSE IF fields[i] \in DOMAIN v THEN v[fields[i]]
        ELSE ""]

(***************************************************************************)
(* resources/allocation.py: allocation set                                 *)
(***************************************************************************)
\* a parser that requires none of the three options
SetAllocation_get_parser_NeverRequired(self) ==
    [project_id |-> FALSE, user_id |-> FALSE, consumer_type |-> FALSE]

\* required= of --project-id, --user-id and --consumer-type, decided when
\* the parser is built
SetAllocation_get_parser(self) ==
    [project_id    |-> self.compare_version[ge(V(1, 8))],
     user_id       |-> self.compare_version[ge(V(1, 8))],
     consumer_type |-> self.compare_version[ge(V(1, 38))]]

\* the value of 'allocations' in the body of the PUT, in the one shape
\* whatever the revision
SetAllocation_allocations_AlwaysList(self, allocations) ==
    [type  |-> "array",
     items |-> [i \in 1..Len(allocations) |->
                   [resource_provider |-> [uuid |-> allocations[i][1]],
                    resources         |-> allocations[i][2]]]]

\* the value of 'allocations' in the body of the PUT
SetAllocation_allocations(self, allocations) ==
    IF self.compare_version[ge(V(1, 12))]
    THEN [type  |-> "object",
          items |-> [i \in 1..Len(allocations) |->
                        <<allocations[i][1],
                          [resources |-> allocations[i][2]]>>]]
    ELSE [type  |-> "array",
          items |-> [i \in 1..Len(allocations) |->
                        [resource_provider |-> [uuid |-> allocations[i][1]],
                         resources         |-> allocations[i][2]]]]

\* a body that never carries the consumer generation
SetAllocation_payload_keys_NoGeneration(self) ==
    {"allocations"}
    \cup (IF self.compare_version[ge(V(1, 8))]
          THEN {"project_id", "user_id"} ELSE {})
    \cup (IF self.compare_version[ge(V(1, 38))]
          THEN {"consumer_type"} ELSE {})

\* the keys of the body of the PUT
SetAllocation_payload_keys(self) ==
    {"allocations"}
    \cup (IF self.compare_version[ge(V(1, 28))]
          THEN {"consumer_generation"} ELSE {})
    \cup (IF self.compare_version[ge(V(1, 8))]
          THEN {"project_id", "user_id"} ELSE {})
    \cup (IF self.compare_version[ge(V(1, 38))]
          THEN {"consumer_type"} ELSE {})

\* the body of the PUT
SetAllocation_payload(self, parsed_args, allocations, consumer_generation) ==
    [k \in SetAllocation_payload_keys(self) |->
        CASE k = "allocations" -> SetAllocation_allocations(self, allocations)
          [] k = "consumer_generation" -> consumer_generation
          [] k = "project_id" -> parsed_args.project_id
          [] k = "user_id" -> parsed_args.user_id
          [] k = "consumer_type" -> parsed_args.consumer_type]

\* a command that never warns
SetAllocation_warnings_Silent(self, parsed_args) == <<>>

\* the warnings logged before the PUT
SetAllocation_warnings(self, parsed_args) ==
    (IF ~self.compare_version[ge(V(1, 8))]
        /\ (parsed_args.project_id # None \/ parsed_args.user_id # None)
     THEN <<<<"--project-id and --user-id options do not ",
              "affect allocation for ",
              "--os-placement-api-version less than 1.8">>>>
     ELSE <<>>)
    \o
    (IF ~self.compare_version[ge(V(1, 38))]
        /\ parsed_args.consumer_type # None
     THEN <<<<"--consumer-type option does not affect ",
              "allocation for --os-placement-api-version less ",
              "than 1.38">>>>
     ELSE <<>>)

Allocation_fields_Prepends(self) ==
    (IF self.compare_version[ge(V(1, 12))]
     THEN <<"project_id", "user_id">> ELSE <<>>)
    \o <<"resource_provider", "generation", "resources">>
    \o (IF self.compare_version[ge(V(1, 38))]
        THEN <<"consumer_type">> ELSE <<>>)

\* the columns of allocation set, allocation unset and allocation show
Allocation_fields(self) ==
    <<"resource_provider", "generation", "resources">>
    \o (IF self.compare_version[ge(V(1, 12))]
        THEN <<"project_id", "user_id">> ELSE <<>>)
    \o (IF self.compare_version[ge(V(1, 38))]
        THEN <<"consumer_type">> ELSE <<>>)

\* the keys of props: what allocation set and allocation show read from
\* the response besides the allocations
Allocation_keys(self) ==
    (IF self.compare_version[ge(V(1, 12))]
     THEN {"project_id", "user_id"} ELSE {})
    \cup (IF self.compare_version[ge(V(1, 38))]
          THEN {"consumer_type"} ELSE {})

\* props: the values read from the response for the appended columns
Allocation_props(self, resp) ==
    [k \in Allocation_keys(self) |-> resp[k]]

\* the rows printed for the allocations of a response
Allocation_rows(self, resp) ==
    [i \in 1..Len(resp.allocations) |->
        AllocationRow(resp.allocations[i][1], resp.allocations[i][2],
                      Allocation_props(self, resp), Allocation_fields(self))]

\* a test that lets an empty dict of allocations through
SetAllocation_none_Never(allocations) == FALSE

\* not allocations
SetAllocation_none(allocations) == allocations = <<>>

\* SetAllocation.take_action: pre is the answer to the GET before the PUT,
\* resp the answer to the GET after it
SetAllocation_take_action(self, parsed_args, pre, resp, fail) ==
    LET url == "/allocations" \o "/" \o parsed_args.uuid
        supports_consumer_generation ==
            self.compare_version[ge(V(1, 28))]
        before == IF supports_consumer_generation
                  THEN <<Req("GET", url, NoKwargs, pre)>> ELSE <<>>
        consumer_generation ==
            IF "consumer_generation" \in DOMAIN pre
            THEN pre.consumer_generation ELSE None
        allocations == parse_allocations(parsed_args.allocation)
        payload  == SetAllocation_payload(self, parsed_args, allocations.value,
                                          consumer_generation)
        warnings == SetAllocation_warnings(self, parsed_args)
        put      == Req("PUT", url, [json |-> payload], NoBody)
        get      == Req("GET", url, NoKwargs, resp)
    IN  IF supports_consumer_generation /\ fail.at = 1
        THEN Outcome("error", HttpErr(fail.status), <<>>,
                     <<Req("GET", url, NoKwargs, NoBody)>>, <<>>, <<>>)
        ELSE IF allocations.kind = "raise"
        THEN Outcome("error", Err(allocations.exc, allocations.msg), <<>>,
                     before, <<>>, <<>>)
        ELSE IF SetAllocation_none(allocations.value)
        THEN Outcome("error",
                     Err("CommandError",
                         <<"At least one resource allocation must be specified">>),
                     <<>>, before, <<>>, <<>>)
        ELSE IF fail.at = Len(before) + 1
        THEN Outcome("error", HttpErr(fail.status), warnings,
                     Append(before, put), <<>>, <<>>)
        ELSE IF fail.at = Len(before) + 2
        THEN Outcome("error", HttpErr(fail.status), warnings,
                     before \o <<put, Req("GET", url, NoKwargs, NoBody)>>,
                     <<>>, <<>>)
        ELSE Outcome("ok", NoError, warnings, before \o <<put, get>>,
                     Allocation_fields(self), Allocation_rows(self, resp))

\* what GET /allocations/{consumer} answers at the revision of self for a
\* consumer that holds allocations; a consumer without any gets the empty
\* mapping and nothing else
GetAllocationsResponse(self, allocations, generation) ==
    [k \in {"allocations"}
           \cup (IF allocations # <<>> /\ self.compare_version[ge(V(1, 12))]
                 THEN {"project_id", "user_id"} ELSE {})
           \cup (IF allocations # <<>> /\ self.compare_version[ge(V(1, 28))]
                 THEN {"consumer_generation"} ELSE {})
           \cup (IF allocations # <<>> /\ self.compare_version[ge(V(1, 38))]
                 THEN {"consumer_type"} ELSE {}) |->
        CASE k = "allocations" -> allocations
          [] k = "project_id" -> "project-of-consumer"
          [] k = "user_id" -> "user-of-consumer"
          [] k = "consumer_generation" -> generation
          [] k = "consumer_type" -> "INSTANCE"]

\* the allocations a consumer holds on the server, when it holds any
HeldAllocations ==
    <<<<"rp1", [generation |-> "3", resources |-> <<<<"VCPU", 2>>>>]>>,
      <<"rp2", [generation |-> "7",
                resources |-> <<<<"VCPU", 1>>, <<"MEMORY_MB", 512>>>>]>>>>

\* the values of --allocation tried: rp=rp1,VCPU=2  rp=rp1,MEMORY_MB=512
\* rp=rp2,VCPU=1  rp=rp1,VCPU=4
AllocationStrings ==
    {<<"rp", "=", "rp1", ",", "VCPU", "=", "2">>,
     <<"rp", "=", "rp1", ",", "MEMORY_MB", "=", "5", "1", "2">>,
     <<"rp", "=", "rp2", ",", "VCPU", "=", "1">>,
     <<"rp", "=", "rp1", ",", "VCPU", "=", "4">>}

AllocationLists == UNION {[1..n -> AllocationStrings] : n \in 0..MaxAllocs}

\* the command has run: its outcome is kept and its requests have gone
\* through SessionClient.request
Invoke(name, parsed_args, outcome) ==
    /\ cmd' = [name |-> name, ver |-> api_version, args |-> parsed_args]
               @@ outcome
    /\ sent' = sent \o Issue(cmd'.reqs, api_version)
    /\ raised' = IF cmd'.reqs = <<>> THEN raised
                 ELSE _wrap_http_exceptions(cmd'.error.status, NoDetail)
    /\ call' = IF cmd'.reqs = <<>> THEN call
                 ELSE [called |-> TRUE, version |-> NoVersion,
                       headers |-> NoHeaders, outcome |-> cmd'.error.status,
                       detail |-> NoDetail]
    /\ UNCHANGED <<known, requested, serverMax, pc, api_version, probe, gv,
                   cmp, ret, deco, cols>>

\* argparse rejects the command line: take_action is not called
Usage == Outcome("usage", Err("SystemExit", <<"the following arguments are required">>),
                 <<>>, <<>>, <<>>, <<>>)

\* openstack resource provider allocation set
SetAllocation ==
    /\ pc = "ready"
    /\ Idle
    /\ \E self \in {CheckerMixin(api_version)} :
       \E allocation \in AllocationLists,
          project_id \in {None, "p1"}, user_id \in {None, "u1"},
          consumer_type \in {None, "INSTANCE"} :
         LET parsed_args == [uuid          |-> "c1",
                             allocation    |-> allocation,
                             project_id    |-> project_id,
                             user_id       |-> user_id,
                             consumer_type |-> consumer_type]
         IN  IF MissingRequired(SetAllocation_get_parser(self),
                                parsed_args) # {}
             THEN Invoke("allocation set", parsed_args, Usage)
             ELSE \E held \in {<<>>, HeldAllocations}, fail \in FailPoints :
                    Invoke("allocation set", parsed_args,
                           SetAllocation_take_action(
                               self, parsed_args,
                               GetAllocationsResponse(self, held, "1"),
                               GetAllocationsResponse(self,
                                                      HeldAllocations, "2"),
                               fail))

(***************************************************************************)
(* resources/inventory.py: inventory delete                                *)
(***************************************************************************)
\* required= of --resource-class, decided when the parser is built
DeleteInventory_get_parser(self) ==
    [resource_class |-> self.compare_version[lt(V(1, 5))]]

\* DeleteInventory.take_action
DeleteInventory_take_action(self, parsed_args, fail) ==
    LET url == IF parsed_args.resource_class # None
               THEN "/resource_providers/" \o parsed_args.uuid
                    \o "/inventories" \o "/" \o parsed_args.resource_class
               ELSE "/resource_providers/" \o parsed_args.uuid
                    \o "/inventories"
        reqs == <<Req("DELETE", url, NoKwargs, NoBody)>>
    IN  IF fail.at = 1
        THEN Outcome("error", HttpErr(fail.status), <<>>, reqs, <<>>, <<>>)
        ELSE Outcome("ok", NoError, <<>>, reqs, <<>>, <<>>)

\* openstack resource provider inventory delete
DeleteInventory ==
    /\ pc = "ready"
    /\ Idle
    /\ \E self \in {CheckerMixin(api_version)} :
       \E resource_class \in {None, "VCPU"} :
         LET parsed_args == [uuid |-> "rp1", resource_class |-> resource_class]
         IN  IF MissingRequired(DeleteInventory_get_parser(self),
                                parsed_args) # {}
             THEN Invoke("inventory delete", parsed_args, Usage)
             ELSE \E fail \in {f \in FailPoints : f.at <= 1} :
                    Invoke("inventory delete", parsed_args,
                           DeleteInventory_take_action(self,
                                                       parsed_args, fail))

(***************************************************************************)
(* Version gates inside the commands                                       *)
(***************************************************************************)
\* the outcome of a command that stops at an exception after the requests
\* reqs
Fails(exc, msg, reqs) == Outcome("error", Err(exc, msg), <<>>, reqs, <<>>, <<>>)

\* the outcome of a command whose last request is rejected
FailsHttp(status, reqs) ==
    Outcome("error", HttpErr(status), <<>>, reqs, <<>>, <<>>)

\* self.check_version(predicate) raises
Unsupported(self, predicate) == self.check_version[predicate].kind = "raise"

\* the outcome of a command that stops at self.check_version(predicate)
FailsCheck(self, predicate, reqs) ==
    Fails(self.check_version[predicate].exc,
          self.check_version[predicate].msg, reqs)

\* a decorator that calls the method without checking
Checked_Unchecked(self, predicate, parsed_args, body) == body

\* take_action decorated with @version.check(predicate): body is what the
\* undecorated method does, and it is not called when the check raises
Checked(self, predicate, parsed_args, body) ==
    IF Unsupported(self, predicate)
    THEN FailsCheck(self, predicate, <<>>)
    ELSE body

\* only the first call of http.request may fail
FirstFails == {f \in FailPoints : f.at <= 1 /\ f.status # 500}

(***************************************************************************)
(* resources/aggregate.py                                                  *)
(***************************************************************************)
\* what the server answers to GET and PUT .../aggregates
AggregatesResponse(self, aggregates) ==
    IF self.compare_version[ge(V(1, 19))]
    THEN [aggregates |-> aggregates, resource_provider_generation |-> "6"]
    ELSE [aggregates |-> aggregates]

\* [[r] for r in resp['aggregates']]
Aggregate_rows(resp) ==
    [i \in 1..Len(resp.aggregates) |-> <<resp.aggregates[i]>>]

\* a body that sends the bare list whenever no generation is given
SetAggregate_body_BareList(self, parsed_args, fail) ==
    LET url == "/resource_providers/" \o parsed_args.uuid \o "/aggregates"
        aggregate == parsed_args.aggregate
        resp == AggregatesResponse(self, aggregate)
        data == [aggregates |-> aggregate,
                 resource_provider_generation |-> parsed_args.generation]
        json == IF parsed_args.generation = None
                THEN [json |-> aggregate] ELSE [json |-> data]
    IN  IF parsed_args.generation # None /\ Unsupported(self, ge(V(1, 19)))
        THEN FailsCheck(self, ge(V(1, 19)), <<>>)
        ELSE IF fail.at = 1
        THEN FailsHttp(fail.status, <<Req("PUT", url, json, NoBody)>>)
        ELSE Outcome("ok", NoError, <<>>, <<Req("PUT", url, json, resp)>>,
                     <<"uuid">>, Aggregate_rows(resp))

\* the body of SetAggregate.take_action
SetAggregate_body(self, parsed_args, fail) ==
    LET url == "/resource_providers/" \o parsed_args.uuid \o "/aggregates"
        aggregate == parsed_args.aggregate
        resp == AggregatesResponse(self, aggregate)
        data == [aggregates |-> aggregate,
                 resource_provider_generation |-> parsed_args.generation]
    IN  IF parsed_args.generation # None /\ Unsupported(self, ge(V(1, 19)))
        THEN FailsCheck(self, ge(V(1, 19)), <<>>)
        ELSE IF self.compare_version[lt(V(1, 19))]
        THEN IF fail.at = 1
             THEN FailsHttp(fail.status,
                            <<Req("PUT", url, [json |-> aggregate], NoBody)>>)
             ELSE Outcome("ok", NoError, <<>>,
                          <<Req("PUT", url, [json |-> aggregate], resp)>>,
                          <<"uuid">>, Aggregate_rows(resp))
        ELSE IF parsed_args.generation # None
        THEN IF fail.at = 1
             THEN FailsHttp(fail.status,
                            <<Req("PUT", url, [json |-> data], NoBody)>>)
             ELSE Outcome("ok", NoError, <<>>,
                          <<Req("PUT", url, [json |-> data], resp)>>,
                          <<"uuid">>, Aggregate_rows(resp))
        ELSE Fails("CommandError", <<"A generation must be specified.">>, <<>>)

\* SetAggregate.take_action
SetAggregate_take_action(self, parsed_args, fail) ==
    Checked(self, ge(V(1, 1)), parsed_args,
            SetAggregate_body(self, parsed_args, fail))

\* the body of ListAggregate.take_action
ListAggregate_body(self, parsed_args, aggregates, fail) ==
    LET url == "/resource_providers/" \o parsed_args.uuid \o "/aggregates"
        resp == AggregatesResponse(self, aggregates)
    IN  IF fail.at = 1
        THEN FailsHttp(fail.status, <<Req("GET", url, NoKwargs, NoBody)>>)
        ELSE Outcome("ok", NoError, <<>>, <<Req("GET", url, NoKwargs, resp)>>,
                     <<"uuid">>, Aggregate_rows(resp))

\* ListAggregate.take_action
ListAggregate_take_action(self, parsed_args, aggregates, fail) ==
    Checked(self, ge(V(1, 1)), parsed_args,
            ListAggregate_body(self, parsed_args, aggregates, fail))

\* the values of --aggregate tried
AggregateLists == {<<>>, <<"agg1">>, <<"agg1", "agg2">>}

\* openstack resource provider aggregate set
SetAggregate ==
    /\ pc = "ready"
    /\ Idle
    /\ \E self \in {CheckerMixin(api_version)} :
       \E aggregate \in AggregateLists, generation \in {None, "5"},
          fail \in FirstFails :
         LET parsed_args == [uuid |-> "rp1", aggregate |-> aggregate,
                             generation |-> generation]
         IN  Invoke("aggregate set", parsed_args,
                    SetAggregate_take_action(self, parsed_args, fail))

\* openstack resource provider aggregate list
ListAggregate ==
    /\ pc = "ready"
    /\ Idle
    /\ \E self \in {CheckerMixin(api_version)} :
       \E aggregates \in AggregateLists, fail \in FirstFails :
         LET parsed_args == [uuid |-> "rp1"]
         IN  Invoke("aggregate list", parsed_args,
                    ListAggregate_take_action(self, parsed_args,
                                              aggregates, fail))

(***************************************************************************)
(* resources/common.py and resources/resource_provider.py                  *)
(***************************************************************************)
\* s.replace(a, b) for one-piece a and b
Replace(s, a, b) == [i \in 1..Len(s) |-> IF s[i] = a THEN b ELSE s[i]]

\* utils.get_dict_properties(item, fields)
GetDictProperties(item, fields) ==
    [i \in 1..Len(fields) |->
        IF fields[i] \in DOMAIN item THEN item[fields[i]] ELSE ""]

\* get_required_query_param_from_args: one 'in:' parameter per OR group,
\* then one parameter with the AND traits and the forbidden traits
get_required_query_param_from_args(required_traits, forbidden_traits) ==
    LET HasComma(required) == Contains(required, ",")
        NoComma(required)  == ~Contains(required, ",")
        or_groups  == SelectSeq(required_traits, HasComma)
        and_traits == SelectSeq(required_traits, NoComma)
        and_query  == Join(<<",">>, and_traits \o forbidden_traits)
    IN  [i \in 1..Len(or_groups) |-> <<"in:">> \o or_groups[i]]
        \o (IF and_query # <<>> THEN <<and_query>> ELSE <<>>)

\* the columns of resource provider create, list and set
ResourceProvider_fields(self) ==
    <<"uuid", "name", "generation">>
    \o (IF self.compare_version[ge(V(1, 14))]
        THEN <<"root_provider_uuid", "parent_provider_uuid">> ELSE <<>>)

\* the columns of resource provider show
ShowResourceProvider_fields(self, allocations) ==
    <<"uuid", "name", "generation">>
    \o (IF self.compare_version[ge(V(1, 14))]
        THEN <<"root_provider_uuid", "parent_provider_uuid">> ELSE <<>>)
    \o (IF allocations THEN <<"allocations">> ELSE <<>>)

\* a resource provider as the server describes it at the revision of self
ProviderResource(self, uuid, name, parent) ==
    IF self.compare_version[ge(V(1, 14))]
    THEN [uuid |-> uuid, name |-> name, generation |-> "0",
          root_provider_uuid   |-> IF parent = None THEN uuid ELSE parent,
          parent_provider_uuid |-> parent]
    ELSE [uuid |-> uuid, name |-> name, generation |-> "0"]

\* data of CreateResourceProvider.take_action
CreateResourceProvider_data(parsed_args) ==
    [k \in {"name"}
           \cup (IF parsed_args.uuid # None THEN {"uuid"} ELSE {})
           \cup (IF parsed_args.parent_provider # None
                 THEN {"parent_provider_uuid"} ELSE {}) |->
        CASE k = "name" -> parsed_args.name
          [] k = "uuid" -> parsed_args.uuid
          [] k = "parent_provider_uuid" -> parsed_args.parent_provider]

\* CreateResourceProvider.take_action
CreateResourceProvider_take_action(self, parsed_args, fail) ==
    LET data     == CreateResourceProvider_data(parsed_args)
        uuid     == IF parsed_args.uuid # None THEN parsed_args.uuid
                    ELSE "rp-new"
        location == "/resource_providers" \o "/" \o uuid
        resource == ProviderResource(self, uuid, parsed_args.name,
                                     parsed_args.parent_provider)
        post     == Req("POST", "/resource_providers", [json |-> data],
                        [Location |-> location])
        fields   == ResourceProvider_fields(self)
    IN  IF parsed_args.parent_provider # None
           /\ Unsupported(self, ge(V(1, 14)))
        THEN FailsCheck(self, ge(V(1, 14)), <<>>)
        ELSE IF fail.at = 1
        THEN FailsHttp(fail.status,
                       <<Req("POST", "/resource_providers", [json |-> data],
                             NoBody)>>)
        ELSE IF fail.at = 2
        THEN FailsHttp(fail.status,
                       <<post, Req("GET", location, NoKwargs, NoBody)>>)
        ELSE Outcome("ok", NoError, <<>>,
                     <<post, Req("GET", location, NoKwargs, resource)>>,
                     fields, <<GetDictProperties(resource, fields)>>)

\* SetResourceProvider.take_action
SetResourceProvider_take_action(self, parsed_args, fail) ==
    LET url  == "/resource_providers" \o "/" \o parsed_args.uuid
        data == [k \in {"name"}
                       \cup (IF parsed_args.parent_provider # None
                             THEN {"parent_provider_uuid"} ELSE {}) |->
                    IF k = "name" THEN parsed_args.name
                    ELSE parsed_args.parent_provider]
        resource == ProviderResource(self, parsed_args.uuid, parsed_args.name,
                                     parsed_args.parent_provider)
        fields   == ResourceProvider_fields(self)
    IN  IF parsed_args.parent_provider # None
           /\ Unsupported(self, ge(V(1, 14)))
        THEN FailsCheck(self, ge(V(1, 14)), <<>>)
        ELSE IF fail.at = 1
        THEN FailsHttp(fail.status, <<Req("PUT", url, [json |-> data], NoBody)>>)
        ELSE Outcome("ok", NoError, <<>>,
                     <<Req("PUT", url, [json |-> data], resource)>>,
                     fields, <<GetDictProperties(resource, fields)>>)

\* ShowResourceProvider.take_action
ShowResourceProvider_take_action(self, parsed_args, fail) ==
    LET url        == "/resource_providers" \o "/" \o parsed_args.uuid
        allocs_url == "/resource_providers/" \o parsed_args.uuid
                      \o "/allocations"
        resource   == ProviderResource(self, parsed_args.uuid, "provider", None)
        allocs     == [allocations |-> <<<<"c1", [resources |-> <<<<"VCPU", 2>>>>]>>>>,
                       resource_provider_generation |-> "0"]
        shown      == [k \in DOMAIN resource \cup {"allocations"} |->
                          IF k = "allocations" THEN allocs.allocations
                          ELSE resource[k]]
        fields     == ShowResourceProvider_fields(self, parsed_args.allocations)
        get        == Req("GET", url, NoKwargs, resource)
    IN  IF fail.at = 1
        THEN FailsHttp(fail.status, <<Req("GET", url, NoKwargs, NoBody)>>)
        ELSE IF ~parsed_args.allocations
        THEN Outcome("ok", NoError, <<>>, <<get>>, fields,
                     <<GetDictProperties(resource, fields)>>)
        ELSE IF fail.at = 2
        THEN FailsHttp(fail.status,
                       <<get, Req("GET", allocs_url, NoKwargs, NoBody)>>)
        ELSE Outcome("ok", NoError, <<>>,
                     <<get, Req("GET", allocs_url, NoKwargs, allocs)>>,
                     fields, <<GetDictProperties(shown, fields)>>)

\* the filters of ListResourceProvider.take_action, once every check has
\* passed
ListResourceProvider_filters(parsed_args) ==
    LET f1 == IF parsed_args.name # None
              THEN <<<<"name", parsed_args.name>>>> ELSE <<>>
        f2 == IF parsed_args.uuid # None
              THEN DictSet(f1, "uuid", parsed_args.uuid) ELSE f1
        f3 == IF parsed_args.aggregate_uuid # <<>>
              THEN DictSet(f2, "member_of",
                           <<"in:">> \o Join(<<",">>, parsed_args.aggregate_uuid))
              ELSE f2
        f4 == IF parsed_args.resource # <<>>
              THEN DictSet(f3, "resources",
                           Join(<<",">>,
                                [i \in 1..Len(parsed_args.resource) |->
                                    Replace(parsed_args.resource[i], "=", ":")]))
              ELSE f3
        f5 == IF parsed_args.in_tree # None
              THEN DictSet(f4, "in_tree", parsed_args.in_tree) ELSE f4
        forbidden_traits == [i \in 1..Len(parsed_args.forbidden) |->
                                <<"!">> \o parsed_args.forbidden[i]]
        f6 == DictSet(f5, "required",
                      get_required_query_param_from_args(parsed_args.required,
                                                         forbidden_traits))
    IN  IF parsed_args.member_of # <<>>
        THEN DictSet(f6, "member_of",
                     [i \in 1..Len(parsed_args.member_of) |->
                         <<"in:">> \o parsed_args.member_of[i]])
        ELSE f6

\* the checks of ListResourceProvider.take_action, in the order they are
\* made: the predicates of the first one that raises, or <<>>
ListResourceProvider_first_unsupported(self, parsed_args) ==
    LET HasComma(required) == Contains(required, ",")
    IN  IF parsed_args.aggregate_uuid # <<>> /\ Unsupported(self, ge(V(1, 3)))
        THEN <<ge(V(1, 3))>>
        ELSE IF parsed_args.resource # <<>> /\ Unsupported(self, ge(V(1, 4)))
        THEN <<ge(V(1, 4))>>
        ELSE IF parsed_args.in_tree # None /\ Unsupported(self, ge(V(1, 14)))
        THEN <<ge(V(1, 14))>>
        ELSE IF parsed_args.required # <<>> /\ Unsupported(self, ge(V(1, 18)))
        THEN <<ge(V(1, 18))>>
        ELSE IF SelectSeq(parsed_args.required, HasComma) # <<>>
                /\ Unsupported(self, ge(V(1, 39)))
        THEN <<ge(V(1, 39))>>
        ELSE IF parsed_args.forbidden # <<>> /\ Unsupported(self, ge(V(1, 22)))
        THEN <<ge(V(1, 22))>>
        ELSE IF parsed_args.member_of # <<>> /\ Unsupported(self, ge(V(1, 3)))
        THEN <<ge(V(1, 3))>>
        ELSE <<>>

\* the warnings of ListResourceProvider.take_action: the deprecation of
\* --aggregate-uuid is logged once its check has passed
ListResourceProvider_warnings(self, parsed_args) ==
    IF parsed_args.aggregate_uuid # <<>> /\ ~Unsupported(self, ge(V(1, 3)))
    THEN <<<<"The --aggregate-uuid option is deprecated, ",
             "please use --member-of instead.">>>>
    ELSE <<>>

\* ListResourceProvider.take_action
ListResourceProvider_take_action(self, parsed_args, resources, fail) ==
    LET unsupported == ListResourceProvider_first_unsupported(self, parsed_args)
        filters     == ListResourceProvider_filters(parsed_args)
        fields      == ResourceProvider_fields(self)
    IN  IF unsupported # <<>>
        THEN Outcome("error",
                     Err(self.check_version[unsupported[1]].exc,
                         self.check_version[unsupported[1]].msg),
                     ListResourceProvider_warnings(self, parsed_args),
                     <<>>, <<>>, <<>>)
        ELSE IF fail.at = 1
        THEN Outcome("error", HttpErr(fail.status),
                     ListResourceProvider_warnings(self, parsed_args),
                     <<Req("GET", "/resource_providers", [params |-> filters],
                           NoBody)>>, <<>>, <<>>)
        ELSE Outcome("ok", NoError,
                     ListResourceProvider_warnings(self, parsed_args),
                     <<Req("GET", "/resource_providers", [params |-> filters],
                           [resource_providers |-> resources])>>,
                     fields,
                     [i \in 1..Len(resources) |->
                         GetDictProperties(resources[i], fields)])

\* the providers the server lists
ListedProviders(self) ==
    <<ProviderResource(self, "rp1", "provider", None),
      ProviderResource(self, "rp2", "child", "rp1")>>

\* openstack resource provider create
CreateResourceProvider ==
    /\ pc = "ready"
    /\ Idle
    /\ \E self \in {CheckerMixin(api_version)} :
       \E uuid \in {None, "rp1"}, parent_provider \in {None, "rp0"},
          fail \in {f \in FailPoints : f.at <= 2 /\ f.status # 500} :
         LET parsed_args == [name |-> "provider", uuid |-> uuid,
                             parent_provider |-> parent_provider]
         IN  Invoke("resource provider create", parsed_args,
                    CreateResourceProvider_take_action(self,
                                                       parsed_args, fail))

\* openstack resource provider set
SetResourceProvider ==
    /\ pc = "ready"
    /\ Idle
    /\ \E self \in {CheckerMixin(api_version)} :
       \E parent_provider \in {None, "rp0"}, fail \in FirstFails :
         LET parsed_args == [uuid |-> "rp1", name |-> "provider",
                             parent_provider |-> parent_provider]
         IN  Invoke("resource provider set", parsed_args,
                    SetResourceProvider_take_action(self,
                                                    parsed_args, fail))

\* openstack resource provider show
ShowResourceProvider ==
    /\ pc = "ready"
    /\ Idle
    /\ \E self \in {CheckerMixin(api_version)} :
       \E allocations \in BOOLEAN,
          fail \in {f \in FailPoints : f.at <= 2 /\ f.status # 500} :
         LET parsed_args == [uuid |-> "rp1", allocations |-> allocations]
         IN  Invoke("resource provider show", parsed_args,
                    ShowResourceProvider_take_action(self,
                                                     parsed_args, fail))

\* openstack resource provider list; argparse rejects --member-of together
\* with --aggregate-uuid
ListResourceProvider ==
    /\ pc = "ready"
    /\ Idle
    /\ \E self \in {CheckerMixin(api_version)} :
       \E aggregate_uuid \in {<<>>, <<<<"agg1">>>>},
          member_of \in {<<>>, <<<<"agg1", ",", "agg2">>>>},
          resource \in {<<>>, <<<<"VCPU", "=", "1">>>>},
          in_tree \in {None, "rp0"},
          required \in {<<>>, <<<<"T1">>>>, <<<<"T1", ",", "T2">>, <<"T3">>>>},
          forbidden \in {<<>>, <<<<"T4">>>>} :
         LET parsed_args == [name |-> None, uuid |-> None,
                             aggregate_uuid |-> aggregate_uuid,
                             member_of |-> member_of, resource |-> resource,
                             in_tree |-> in_tree, required |-> required,
                             forbidden |-> forbidden]
         IN  IF aggregate_uuid # <<>> /\ member_of # <<>>
             THEN Invoke("resource provider list", parsed_args, Usage)
             ELSE \E fail \in FirstFails :
                    Invoke("resource provider list", parsed_args,
                           ListResourceProvider_take_action(
                               self, parsed_args,
                               ListedProviders(self), fail))

(***************************************************************************)
(* resources/inventory.py: inventory set                                   *)
(*                                                                         *)
(* The names of resource classes and inventory fields are taken from the   *)
(* command line, so they are strings of pieces here, also in the JSON of   *)
(* the inventories.                                                        *)
(***************************************************************************)
\* the keys of INVENTORY_FIELDS, in order
FIELDS ==
    <<"allocation_ratio", "min_unit", "max_unit", "reserved", "step_size",
      "total">>

\* parse_resource_argument(resource): (name, field, value), or ValueError
parse_resource_argument(resource) ==
    LET parts == SplitBy(resource, "=")
        names == SplitBy(parts[1], ":")
        name  == names[1]
        field == IF Len(names) = 2 THEN names[2] ELSE <<"total">>
        value == parts[2]
    IN  IF Len(parts) # 2
        THEN Raised("ValueError",
                    <<"Resource argument must have \"name=value\" format">>)
        ELSE IF Len(names) > 2
        THEN Raised("ValueError",
                    <<"Resource argument can contain only one colon">>)
        ELSE IF name = <<>> \/ field = <<>> \/ value = <<>>
        THEN Raised("ValueError", <<"Name, field and value must be not empty">>)
        ELSE IF Len(field) # 1 \/ \A i \in 1..Len(FIELDS) : FIELDS[i] # field[1]
        THEN Raised("ValueError", <<"Unknown inventory field ">> \o field)
        ELSE IF field = <<"allocation_ratio">>
        THEN Returned([name |-> name, field |-> field,
                       value |-> [float |-> value]])
        ELSE IF ~AllDigits(value)
        THEN Raised("ValueError", <<"invalid literal for int() with base 10">>)
        ELSE Returned([name |-> name, field |-> field, value |-> ToInt(value)])

\* a loop that leaves the inventories as they are
apply_resources_Nothing(resource, inventories) == Returned(inventories)

\* the loop that applies the --resource options to inventories; the first
\* option that cannot be parsed ends it
RECURSIVE apply_resources(_, _)
apply_resources(resource, inventories) ==
    IF resource = <<>> THEN Returned(inventories)
    ELSE LET parsed == parse_resource_argument(Head(resource))
             record == IF DictHas(inventories, parsed.value.name)
                       THEN DictGet(inventories, parsed.value.name) ELSE <<>>
         IN  IF parsed.kind = "raise" THEN parsed
             ELSE apply_resources(
                      Tail(resource),
                      DictSet(inventories, parsed.value.name,
                              DictSet(record, parsed.value.field,
                                      parsed.value.value)))

\* the status the session gives the n-th call of http.request, 0 for a
\* response that is accepted
Status(outcomes, n) == IF n <= Len(outcomes) THEN outcomes[n] ELSE 0

\* the inventories the server holds for a provider
ExistingInventories ==
    <<<<<<"VCPU">>, <<<<<<"total">>, 8>>, <<<<"reserved">>, 1>>>>>>,
      <<<<"DISK_GB">>, <<<<<<"total">>, 100>>>>>>>>

\* get_rows(fields, resources, rp_uuid) of SetInventory.take_action
SetInventory_get_rows(fields, resources, prepend) ==
    [i \in 1..Len(resources.inventories) |->
        prepend \o
        [j \in 1..Len(fields) |->
            IF fields[j] = "resource_class" THEN resources.inventories[i][1]
            ELSE IF DictHas(resources.inventories[i][2], <<fields[j]>>)
            THEN DictGet(resources.inventories[i][2], <<fields[j]>>)
            ELSE ""]]

\* a try block that sends the PUT whatever --dry-run says
SetInventory_try_AlwaysPut(parsed_args, url, payload, status) ==
    <<Req("PUT", url, [json |-> payload],
          IF status = 0 THEN payload ELSE NoBody)>>

\* the requests of the try block of the loop: the PUT, unless --dry-run
SetInventory_try(parsed_args, url, payload, status) ==
    IF ~parsed_args.dry_run
    THEN <<Req("PUT", url, [json |-> payload],
               IF status = 0 THEN payload ELSE NoBody)>>
    ELSE <<>>

\* the state of the loop over the providers when nothing has been done
SetInventory_start(reqs) ==
    [reqs |-> reqs, resources_list |-> <<>>, ret |-> 0, log |-> <<>>,
     raised |-> NoError]

\* the loop of SetInventory.take_action over the providers rps
RECURSIVE SetInventory_loop(_, _, _, _)
SetInventory_loop(rps, parsed_args, outcomes, acc) ==
    IF rps = <<>> \/ acc.raised # NoError THEN acc
    ELSE
    LET rp  == Head(rps)
        url == "/resource_providers/" \o rp.uuid \o "/inventories"
        n   == Len(acc.reqs) + 1
        read == [inventories |-> ExistingInventories,
                 resource_provider_generation |-> rp.generation]
        before == IF parsed_args.amend
                  THEN Append(acc.reqs,
                              Req("GET", url, NoKwargs,
                                  IF Status(outcomes, n) = 0 THEN read
                                  ELSE NoBody))
                  ELSE acc.reqs
        applied == apply_resources(parsed_args.resource,
                                   IF parsed_args.amend
                                   THEN ExistingInventories ELSE <<>>)
        payload == [inventories |-> applied.value,
                    resource_provider_generation |-> rp.generation]
        m   == Len(before) + 1
        put == before \o SetInventory_try(parsed_args, url, payload,
                                          Status(outcomes, m))
    IN  IF parsed_args.amend /\ Status(outcomes, n) # 0
        THEN [acc EXCEPT !.reqs = before,
                         !.raised = HttpErr(Status(outcomes, n))]
        ELSE IF applied.kind = "raise"
        THEN [acc EXCEPT !.reqs = before,
                         !.raised = Err(applied.exc, applied.msg)]
        ELSE IF parsed_args.dry_run
        THEN SetInventory_loop(
                 Tail(rps), parsed_args, outcomes,
                 [acc EXCEPT !.reqs = put,
                             !.resources_list =
                                 Append(@, <<rp.uuid, payload>>)])
        ELSE IF Status(outcomes, m) = 0
        THEN SetInventory_loop(
                 Tail(rps), parsed_args, outcomes,
                 [acc EXCEPT !.reqs = put,
                             !.resources_list =
                                 Append(@, <<rp.uuid, payload>>)])
        ELSE IF parsed_args.aggregate
        THEN SetInventory_loop(
                 Tail(rps), parsed_args, outcomes,
                 [acc EXCEPT !.reqs = put,
                             !.ret = @ + 1,
                             !.log = Append(@,
                                 <<"Failed to set inventory for ",
                                   "resource provider ", rp.uuid>>)])
        ELSE [acc EXCEPT !.reqs = put,
                         !.raised = HttpErr(Status(outcomes, m))]

\* what follows the loop: the error for the providers that failed, or the
\* rows
SetInventory_finish(parsed_args, rps, acc) ==
    LET fields == <<"resource_class">> \o FIELDS
        Rows[i \in 0..Len(acc.resources_list)] ==
            IF i = 0 THEN <<>>
            ELSE Rows[i - 1]
                 \o SetInventory_get_rows(fields, acc.resources_list[i][2],
                                          <<acc.resources_list[i][1]>>)
    IN  IF acc.raised # NoError
        THEN Outcome("error", acc.raised, acc.log, acc.reqs, <<>>, <<>>)
        ELSE IF acc.ret > 0
        THEN Outcome("error",
                     Err("CommandError",
                         <<"Failed to set inventory for ">> \o ToStr(acc.ret)
                         \o <<" of ">> \o ToStr(Len(rps))
                         \o <<" resource providers.">>),
                     acc.log, acc.reqs, <<>>, <<>>)
        ELSE IF parsed_args.aggregate
        THEN Outcome("ok", NoError, acc.log, acc.reqs,
                     <<"resource_provider">> \o fields,
                     Rows[Len(acc.resources_list)])
        ELSE Outcome("ok", NoError, acc.log, acc.reqs, fields,
                     SetInventory_get_rows(fields, acc.resources_list[1][2],
                                           <<>>))

\* SetInventory.take_action: members are the providers the server lists for
\* the aggregate, outcomes the statuses of the calls of http.request
SetInventory_take_action(self, parsed_args, members, outcomes) ==
    LET list_url == "/resource_providers" \o "?member_of=" \o parsed_args.uuid
        url      == "/resource_providers" \o "/" \o parsed_args.uuid
        one      == [uuid |-> parsed_args.uuid, generation |-> "g1"]
        first    == IF parsed_args.aggregate
                    THEN Req("GET", list_url, NoKwargs,
                             IF Status(outcomes, 1) = 0
                             THEN [resource_providers |-> members] ELSE NoBody)
                    ELSE Req("GET", url, NoKwargs,
                             IF Status(outcomes, 1) = 0 THEN one ELSE NoBody)
        rps      == IF parsed_args.aggregate THEN members ELSE <<one>>
    IN  IF parsed_args.aggregate /\ Unsupported(self, ge(V(1, 3)))
        THEN FailsCheck(self, ge(V(1, 3)), <<>>)
        ELSE IF Status(outcomes, 1) # 0
        THEN FailsHttp(Status(outcomes, 1), <<first>>)
        ELSE IF rps = <<>>
        THEN Fails("CommandError",
                   <<"No resource providers found in aggregate with uuid ",
                     parsed_args.uuid, ".">>, <<first>>)
        ELSE SetInventory_finish(
                 parsed_args, rps,
                 SetInventory_loop(rps, parsed_args, outcomes,
                                   SetInventory_start(<<first>>)))

\* the values of --resource tried: VCPU=16 and VCPU:reserved=2, a class
\* the provider does not have, and a field that does not exist
ResourceLists ==
    {<<>>,
     <<<<"VCPU", "=", "1", "6">>>>,
     <<<<"VCPU", "=", "1", "6">>, <<"VCPU", ":", "reserved", "=", "2">>>>,
     <<<<"VCPU", ":", "reserved", "=", "2">>, <<"MEMORY_MB", "=", "4">>,
       <<"VCPU", ":", "reserved", "=", "3">>>>,
     <<<<"VCPU", ":", "size", "=", "2">>>>}

\* the providers of an aggregate
MemberLists ==
    {<<>>,
     <<[uuid |-> "rp1", generation |-> "g1"],
       [uuid |-> "rp2", generation |-> "g2"]>>,
     <<[uuid |-> "rp1", generation |-> "g1"],
       [uuid |-> "rp2", generation |-> "g2"],
       [uuid |-> "rp3", generation |-> "g3"]>>}

\* openstack resource provider inventory set, with the calls of
\* http.request answered as one of profiles says
SetInventory(profiles) ==
    /\ pc = "ready"
    /\ Idle
    /\ \E self \in {CheckerMixin(api_version)} :
       \E resource \in ResourceLists, aggregate \in BOOLEAN,
          amend \in BOOLEAN, dry_run \in BOOLEAN,
          members \in MemberLists, outcomes \in profiles :
         LET parsed_args == [uuid |-> "u1", resource |-> resource,
                             aggregate |-> aggregate, amend |-> amend,
                             dry_run |-> dry_run]
         IN  Invoke("inventory set",
                    [parsed_args |-> parsed_args, members |-> members,
                     outcomes |-> outcomes] @@ parsed_args,
                    SetInventory_take_action(self, parsed_args,
                                             members, outcomes))

(***************************************************************************)
(* resources/allocation.py: allocation unset and allocation show           *)
(***************************************************************************)
\* x in list
InList(list, x) == \E i \in 1..Len(list) : list[i] = x

\* allocations from which the classes go whatever --provider says
UnsetAllocation_allocations_EveryProvider(allocations, parsed_args) ==
    LET Kept(rc)     == ~InList(parsed_args.resource_class, rc[1])
        Popped(rp)   == <<rp[1], [rp[2] EXCEPT !.resources = SelectSeq(@, Kept)]>>
        popped       == [i \in 1..Len(allocations) |-> Popped(allocations[i])]
        NotEmpty(rp) == rp[2].resources # <<>>
        NotGiven(rp) == ~InList(parsed_args.provider, rp[1])
    IN  IF parsed_args.resource_class # <<>>
        THEN SelectSeq(popped, NotEmpty)
        ELSE IF parsed_args.provider # <<>>
        THEN SelectSeq(allocations, NotGiven)
        ELSE <<>>

\* the allocations left by UnsetAllocation.take_action
UnsetAllocation_allocations(allocations, parsed_args) ==
    LET Kept(rc)     == ~InList(parsed_args.resource_class, rc[1])
        Touched(rp)  == parsed_args.provider = <<>>
                        \/ InList(parsed_args.provider, rp[1])
        Popped(rp)   == IF Touched(rp)
                        THEN <<rp[1],
                               [rp[2] EXCEPT
                                   !.resources = SelectSeq(@, Kept)]>>
                        ELSE rp
        popped       == [i \in 1..Len(allocations) |-> Popped(allocations[i])]
        Stays(rp)    == ~Touched(rp) \/ rp[2].resources # <<>>
        NotGiven(rp) == ~InList(parsed_args.provider, rp[1])
    IN  IF parsed_args.resource_class # <<>>
        THEN SelectSeq(popped, Stays)
        ELSE IF parsed_args.provider # <<>>
        THEN SelectSeq(allocations, NotGiven)
        ELSE <<>>

\* the columns of allocation unset
UnsetAllocation_fields(self) ==
    <<"resource_provider", "generation", "resources", "project_id", "user_id">>
    \o (IF self.compare_version[ge(V(1, 38))]
        THEN <<"consumer_type">> ELSE <<>>)

\* resp.get(key)
Get(resp, key) == IF key \in DOMAIN resp THEN resp[key] ELSE None

\* what allocation unset reads from the response besides the allocations
UnsetAllocation_keys(self) ==
    {"project_id", "user_id"}
    \cup (IF self.compare_version[ge(V(1, 38))]
          THEN {"consumer_type"} ELSE {})

\* the rows of allocation unset
UnsetAllocation_rows(self, resp) ==
    [i \in 1..Len(resp.allocations) |->
        AllocationRow(
            resp.allocations[i][1], resp.allocations[i][2],
            [k \in UnsetAllocation_keys(self) |->
                IF k = "consumer_type" THEN Get(resp, k) ELSE resp[k]],
            UnsetAllocation_fields(self))]

\* a body of the PUT built anew, with the allocations alone
UnsetAllocation_payload_OnlyAllocations(payload, allocations) ==
    [allocations |-> allocations]

\* payload['allocations'] = allocations
UnsetAllocation_payload(payload, allocations) ==
    [payload EXCEPT !.allocations = allocations]

\* a write that is a PUT whatever is left
UnsetAllocation_write_AlwaysPut(self, url, payload, allocations) ==
    Req("PUT", url,
        [json |-> UnsetAllocation_payload(payload, allocations)], NoBody)

\* the request that writes what is left: the PUT of the payload, or the
\* DELETE when nothing is left and the revision is below 1.28
UnsetAllocation_write(self, url, payload, allocations) ==
    IF allocations # <<>> \/ self.compare_version[ge(V(1, 28))]
    THEN Req("PUT", url,
             [json |-> UnsetAllocation_payload(payload, allocations)], NoBody)
    ELSE Req("DELETE", url, NoKwargs, NoBody)

\* the body of UnsetAllocation.take_action: held is what the consumer holds
UnsetAllocation_body(self, parsed_args, held, fail) ==
    LET url     == "/allocations" \o "/" \o parsed_args.uuid
        payload == GetAllocationsResponse(self, held, "1")
        allocations == UnsetAllocation_allocations(payload.allocations,
                                                   parsed_args)
        get     == Req("GET", url, NoKwargs, payload)
        write   == UnsetAllocation_write(self, url, payload, allocations)
        resp    == GetAllocationsResponse(self, allocations, "2")
    IN  IF fail.at = 1
        THEN FailsHttp(fail.status, <<Req("GET", url, NoKwargs, NoBody)>>)
        ELSE IF fail.at = 2
        THEN FailsHttp(fail.status, <<get, write>>)
        ELSE IF fail.at = 3
        THEN FailsHttp(fail.status,
                       <<get, write, Req("GET", url, NoKwargs, NoBody)>>)
        ELSE Outcome("ok", NoError, <<>>,
                     <<get, write, Req("GET", url, NoKwargs, resp)>>,
                     UnsetAllocation_fields(self),
                     UnsetAllocation_rows(self, resp))

\* UnsetAllocation.take_action
UnsetAllocation_take_action(self, parsed_args, held, fail) ==
    Checked(self, ge(V(1, 12)), parsed_args,
            UnsetAllocation_body(self, parsed_args, held, fail))

\* the rows of allocation show
ShowAllocation_rows(self, resp) ==
    [i \in 1..Len(resp.allocations) |->
        AllocationRow(
            resp.allocations[i][1], resp.allocations[i][2],
            [k \in Allocation_keys(self) |-> Get(resp, k)],
            Allocation_fields(self))]

\* ShowAllocation.take_action
ShowAllocation_take_action(self, parsed_args, held, fail) ==
    LET url  == "/allocations" \o "/" \o parsed_args.uuid
        resp == GetAllocationsResponse(self, held, "1")
    IN  IF fail.at = 1
        THEN FailsHttp(fail.status, <<Req("GET", url, NoKwargs, NoBody)>>)
        ELSE Outcome("ok", NoError, <<>>, <<Req("GET", url, NoKwargs, resp)>>,
                     Allocation_fields(self), ShowAllocation_rows(self, resp))

\* openstack resource provider allocation unset
UnsetAllocation ==
    /\ pc = "ready"
    /\ Idle
    /\ \E self \in {CheckerMixin(api_version)} :
       \E provider \in {<<>>, <<"rp1">>, <<"rp9">>, <<"rp2", "rp1">>},
          resource_class \in {<<>>, <<"VCPU">>, <<"DISK_GB">>,
                              <<"MEMORY_MB", "VCPU">>},
          held \in {<<>>, HeldAllocations},
          fail \in {f \in FailPoints : f.status # 500} :
         LET parsed_args == [uuid |-> "c1", provider |-> provider,
                             resource_class |-> resource_class]
         IN  Invoke("allocation unset", parsed_args,
                    UnsetAllocation_take_action(self, parsed_args,
                                                held, fail))

\* openstack resource provider allocation show
ShowAllocation ==
    /\ pc = "ready"
    /\ Idle
    /\ \E self \in {CheckerMixin(api_version)} :
       \E held \in {<<>>, HeldAllocations}, fail \in FirstFails :
         LET parsed_args == [uuid |-> "c1"]
         IN  Invoke("allocation show", parsed_args,
                    ShowAllocation_take_action(self, parsed_args,
                                               held, fail))

(***************************************************************************)
(* resources/allocation_candidate.py                                       *)
(*                                                                         *)
(* A command line is the sequence of its (option, value) pairs.  The       *)
(* namespace argparse fills is a record that has the key groups only once  *)
(* an action has set it, as 'groups' in parsed_args asks.                  *)
(***************************************************************************)
\* namespace.__dict__.setdefault('groups', {})
SetDefaultGroups(namespace) ==
    IF "groups" \in DOMAIN namespace THEN namespace
    ELSE [k \in DOMAIN namespace \cup {"groups"} |->
             IF k = "groups" THEN <<>> ELSE namespace[k]]

\* namespace._current_group = group
SetCurrentGroup(namespace, group) ==
    [k \in DOMAIN namespace \cup {"_current_group"} |->
        IF k = "_current_group" THEN group ELSE namespace[k]]

\* GroupAction.__call__
GroupAction(namespace, values) ==
    LET with_current == SetCurrentGroup(namespace, values)
        with_groups  == SetDefaultGroups(with_current)
    IN  [with_groups EXCEPT !.groups = DictSet(@, values, <<>>)]

\* defaultdict(list): group[dest].append(values)
AppendTo(group, dest, values) ==
    IF DictHas(group, dest)
    THEN DictSet(group, dest, Append(DictGet(group, dest), values))
    ELSE DictSet(group, dest, <<values>>)

\* AppendToGroup.__call__
AppendToGroup(namespace, dest, values) ==
    LET started == IF "_current_group" \in DOMAIN namespace THEN namespace
                   ELSE [SetCurrentGroup(SetDefaultGroups(namespace), <<>>)
                            EXCEPT !.groups = DictSet(@, <<>>, <<>>)]
        current == started["_current_group"]
    IN  [started EXCEPT
            !.groups = DictSet(@, current,
                               AppendTo(DictGet(@, current), dest, values))]

\* parser.parse_args: the actions of the options in command-line order
RECURSIVE ListAllocationCandidate_parse_args(_, _)
ListAllocationCandidate_parse_args(argv, namespace) ==
    IF argv = <<>> THEN namespace
    ELSE LET option == Head(argv)[1]
             values == Head(argv)[2]
         IN  ListAllocationCandidate_parse_args(
                 Tail(argv),
                 IF option = "group" THEN GroupAction(namespace, values)
                 ELSE IF option = "limit"
                 THEN [namespace EXCEPT !.limit = values[1]]
                 ELSE AppendToGroup(namespace, option, values))

\* the namespace before any option is read
ListAllocationCandidate_defaults == [limit |-> None, group_policy |-> "none"]

\* --member-of and --aggregate-uuid are mutually exclusive
ListAllocationCandidate_conflict(argv) ==
    /\ \E i \in 1..Len(argv) : argv[i][1] = "member_of"
    /\ \E i \in 1..Len(argv) : argv[i][1] = "aggregate_uuid"

\* the loop of take_action over parsed_args.groups from the i-th one, with
\* the params and the warnings so far: a failure, or the final params
RECURSIVE ListAllocationCandidate_loop(_, _, _, _, _)
ListAllocationCandidate_loop(self, groups, i, params, warnings) ==
    IF i > Len(groups)
    THEN [failed |-> FALSE, params |-> params, warnings |-> warnings]
    ELSE
    LET suffix == groups[i][1]
        group  == groups[i][2]
        _get_key(name) == <<name>> \o suffix
        Given(dest) == DictHas(group, dest) /\ DictGet(group, dest) # <<>>
        List(dest)  == DictGet(group, dest)
        Stop(outcome) == [failed |-> TRUE, outcome |-> outcome]
        StopCheck(predicate) ==
            Stop(Outcome("error",
                         Err(self.check_version[predicate].exc,
                             self.check_version[predicate].msg),
                         warnings, <<>>, <<>>, <<>>))
        p1 == DictSet(params, _get_key("resources"),
                      Join(<<",">>,
                           [j \in 1..Len(List("resources")) |->
                               Replace(List("resources")[j], "=", ":")]))
        p2 == IF Given("required")
              THEN DictSet(p1, _get_key("required"),
                           Join(<<",">>, List("required")))
              ELSE p1
        forbidden_traits ==
            Join(<<",">>, [j \in 1..Len(List("forbidden")) |->
                              <<"!">> \o List("forbidden")[j]])
        p3 == IF ~Given("forbidden") THEN p2
              ELSE IF DictHas(p2, <<"required">>)
              THEN DictSet(p2, _get_key("required"),
                           DictGet(p2, _get_key("required")) \o <<",">>
                           \o forbidden_traits)
              ELSE DictSet(p2, _get_key("required"), forbidden_traits)
        p4 == IF Given("aggregate_uuid")
              THEN DictSet(p3, _get_key("member_of"),
                           <<"in:">> \o Join(<<",">>, List("aggregate_uuid")))
              ELSE p3
        w4 == IF Given("aggregate_uuid")
              THEN Append(warnings,
                          <<"The --aggregate-uuid option is deprecated, ",
                            "please use --member-of instead.">>)
              ELSE warnings
        p5 == IF Given("member_of")
              THEN DictSet(p4, _get_key("member_of"),
                           [j \in 1..Len(List("member_of")) |->
                               <<"in:">> \o List("member_of")[j]])
              ELSE p4
    IN  IF ~DictHas(group, "resources")
        THEN Stop(Outcome("error",
                          Err("CommandError",
                              <<"--resources should be provided in group %s">>
                              \o suffix),
                          warnings, <<>>, <<>>, <<>>))
        ELSE IF \E j \in 1..Len(List("resources")) :
                    Len(SplitBy(List("resources")[j], "=")) # 2
        THEN Stop(Outcome("error",
                          Err("CommandError",
                              <<"Arguments to --resource must be of form ",
                                "<resource_class>=<value>">>),
                          warnings, <<>>, <<>>, <<>>))
        ELSE IF Given("required") /\ Unsupported(self, ge(V(1, 17)))
        THEN StopCheck(ge(V(1, 17)))
        ELSE IF Given("forbidden") /\ Unsupported(self, ge(V(1, 22)))
        THEN StopCheck(ge(V(1, 22)))
        ELSE IF Given("forbidden") /\ DictHas(p2, <<"required">>)
                /\ ~DictHas(p2, _get_key("required"))
        THEN Stop(Outcome("error", Err("KeyError", _get_key("required")),
                          warnings, <<>>, <<>>, <<>>))
        ELSE IF Given("aggregate_uuid") /\ Unsupported(self, ge(V(1, 21)))
        THEN StopCheck(ge(V(1, 21)))
        ELSE IF Given("member_of") /\ Unsupported(self, ge(V(1, 21)))
        THEN Stop(Outcome("error",
                          Err(self.check_version[ge(V(1, 21))].exc,
                              self.check_version[ge(V(1, 21))].msg),
                          w4, <<>>, <<>>, <<>>))
        ELSE ListAllocationCandidate_loop(self, groups, i + 1, p5, w4)

\* what the server answers to GET /allocation_candidates at the revision of
\* self: one candidate on one provider
CandidatesResponse(self) ==
    [provider_summaries |->
        <<<<"rp1",
            IF self.compare_version[ge(V(1, 17))]
            THEN [resources |-> <<<<"VCPU", [used |-> 0, capacity |-> 4]>>>>,
                  traits    |-> <<<<"T1">>, <<"T2">>>>]
            ELSE [resources |-> <<<<"VCPU", [used |-> 0, capacity |-> 4]>>>>]>>>>,
     allocation_requests |->
        <<[allocations |->
              IF self.compare_version[ge(V(1, 12))]
              THEN [type  |-> "object",
                    items |-> <<<<"rp1", [resources |-> <<<<"VCPU", 1>>>>]>>>>]
              ELSE [type  |-> "array",
                    items |-> <<[resource_provider |-> [uuid |-> "rp1"],
                                 resources |-> <<<<"VCPU", 1>>>>]>>]]>>]

\* the columns of allocation candidate list
ListAllocationCandidate_fields(self) ==
    <<"#", "allocation", "resource provider", "inventory used/capacity">>
    \o (IF self.compare_version[ge(V(1, 17))]
        THEN <<"traits">> ELSE <<>>)

\* what allocation candidate list reads from a provider summary
ListAllocationCandidate_keys(self) ==
    {"resources"}
    \cup (IF self.compare_version[ge(V(1, 17))] THEN {"traits"} ELSE {})

\* the concatenation of the sequences of a sequence
RECURSIVE Flatten(_)
Flatten(seqs) == IF seqs = <<>> THEN <<>> ELSE Head(seqs) \o Flatten(Tail(seqs))

\* the rows of allocation candidate list
ListAllocationCandidate_rows(self, resp) ==
    LET include_traits == self.compare_version[ge(V(1, 17))]
        summaries == resp.provider_summaries
        rp_resources ==
            [i \in 1..Len(summaries) |->
                <<summaries[i][1],
                  Join(<<",">>,
                       [j \in 1..Len(summaries[i][2].resources) |->
                           LET rc    == summaries[i][2].resources[j][1]
                               value == summaries[i][2].resources[j][2]
                           IN  <<rc, "=">> \o ToStr(value.used) \o <<"/">>
                               \o ToStr(value.capacity)])>>]
        rp_traits ==
            [i \in 1..Len(summaries) |->
                <<summaries[i][1], Join(<<",">>, summaries[i][2].traits)>>]
        Req_(resources) ==
            Join(<<",">>, [j \in 1..Len(resources) |->
                              <<resources[j][1], "=">>
                              \o ToStr(resources[j][2])])
        Row(i, req, rp) ==
            IF include_traits
            THEN <<i, req, rp, DictGet(rp_resources, rp),
                   DictGet(rp_traits, rp)>>
            ELSE <<i, req, rp, DictGet(rp_resources, rp)>>
        Rows(i) ==
            LET allocations == resp.allocation_requests[i].allocations.items
            IN  IF self.compare_version[ge(V(1, 12))]
                THEN [j \in 1..Len(allocations) |->
                         Row(i, Req_(allocations[j][2].resources),
                             allocations[j][1])]
                ELSE [j \in 1..Len(allocations) |->
                         Row(i, Req_(allocations[j].resources),
                             allocations[j].resource_provider.uuid)]
    IN  Flatten([i \in 1..Len(resp.allocation_requests) |-> Rows(i)])

\* the body of ListAllocationCandidate.take_action
ListAllocationCandidate_body(self, parsed_args, fail) ==
    LET AnyGroup == \E i \in 1..Len(parsed_args.groups) :
                        parsed_args.groups[i][1] # <<>>
        p1 == IF parsed_args.limit # None
              THEN <<<<<<"limit">>, ToInt(<<parsed_args.limit>>)>>>>
              ELSE <<>>
        p2 == IF AnyGroup
              THEN DictSet(p1, <<"group_policy">>, parsed_args.group_policy)
              ELSE p1
        loop == ListAllocationCandidate_loop(self, parsed_args.groups, 1, p2,
                                             <<>>)
        resp == CandidatesResponse(self)
    IN  IF "groups" \notin DOMAIN parsed_args
        THEN Fails("CommandError",
                   <<"At least one --resource must be specified.">>, <<>>)
        ELSE IF parsed_args.limit # None /\ Unsupported(self, ge(V(1, 16)))
        THEN FailsCheck(self, ge(V(1, 16)), <<>>)
        ELSE IF AnyGroup /\ Unsupported(self, ge(V(1, 25)))
        THEN FailsCheck(self, ge(V(1, 25)), <<>>)
        ELSE IF loop.failed
        THEN loop.outcome
        ELSE IF fail.at = 1
        THEN Outcome("error", HttpErr(fail.status), loop.warnings,
                     <<Req("GET", "/allocation_candidates",
                           [params |-> loop.params], NoBody)>>, <<>>, <<>>)
        ELSE Outcome("ok", NoError, loop.warnings,
                     <<Req("GET", "/allocation_candidates",
                           [params |-> loop.params], resp)>>,
                     ListAllocationCandidate_fields(self),
                     ListAllocationCandidate_rows(self, resp))

\* ListAllocationCandidate.take_action
ListAllocationCandidate_take_action(self, parsed_args, fail) ==
    Checked(self, ge(V(1, 10)), parsed_args,
            ListAllocationCandidate_body(self, parsed_args, fail))

\* the options tried on the command line of allocation candidate list
CandidateOptions ==
    {<<"resources", <<"VCPU", "=", "1">>>>, <<"resources", <<"VCPU">>>>,
     <<"limit", <<"5">>>>, <<"required", <<"T1">>>>,
     <<"forbidden", <<"T2">>>>, <<"member_of", <<"agg1">>>>,
     <<"aggregate_uuid", <<"agg2">>>>, <<"group", <<"1">>>>}

CandidateLines == UNION {[1..n -> CandidateOptions] : n \in 0..MaxOptions}

\* openstack allocation candidate list, with one of the command lines
\* lines
ListAllocationCandidate(lines) ==
    /\ pc = "ready"
    /\ Idle
    /\ \E self \in {CheckerMixin(api_version)} :
       \E argv \in lines :
         IF ListAllocationCandidate_conflict(argv)
         THEN Invoke("allocation candidate list", [argv |-> argv], Usage)
         ELSE LET parsed_args == ListAllocationCandidate_parse_args(
                                     argv, ListAllocationCandidate_defaults)
              IN  \E fail \in FirstFails :
                    Invoke("allocation candidate list",
                           [k \in DOMAIN parsed_args \cup {"argv"} |->
                               IF k = "argv" THEN argv ELSE parsed_args[k]],
                           ListAllocationCandidate_take_action(
                               self, parsed_args, fail))

(***************************************************************************)
(* The commands with version gates, at every revision where a gate or a    *)
(* column of some command changes, and next to those revisions             *)
(***************************************************************************)
CommandMinors ==
    {0, 1, 2, 3, 4, 5, 9, 10, 11, 12, 13, 14, 15, 16, 17, 18, 19, 20, 21, 22,
     24, 25, 27, 28, 37, 38, 39}

CommandVersions == {V(1, m) : m \in CommandMinors}

\* the status profiles of the requests of inventory set: every request
\* answered, or the second or the third one refused
InventoryProfiles == {<<>>, <<0, 409>>, <<0, 0, 409>>}

InitCommands ==
    /\ known = SUPPORTED_VERSIONS
    /\ \/ requested \in CommandVersions /\ serverMax = V(1, 39)
       \/ requested \in NEGOTIATE_VERSIONS /\ serverMax = V(1, 12)
    /\ pc = "init"
    /\ api_version = NoVersion
    /\ sent = <<>>
    /\ probe = 0
    /\ raised = NoRaise
    /\ gv = NoGv
    /\ cmp = NoCmp
    /\ ret = NoRet
    /\ deco = NoDeco
    /\ cmd = NoCmd
    /\ cols = NoCols
    /\ call = NoCall

NextCommands ==
    \/ negotiate_api_version
    \/ CheckedCall
    \/ SetAggregate
    \/ ListAggregate
    \/ CreateResourceProvider
    \/ SetResourceProvider
    \/ ShowResourceProvider
    \/ ListResourceProvider
    \/ SetInventory(InventoryProfiles)
    \/ UnsetAllocation
    \/ ShowAllocation
    \/ ListAllocationCandidate(CandidateLines)

SpecCommands == InitCommands /\ [][NextCommands]_vars

(***************************************************************************)
(* allocation set and inventory delete: the commands whose parser depends  *)
(* on the revision                                                         *)
(***************************************************************************)
\* the revisions at which the two commands change their behaviour, and the
\* ones before them
AllocationMinors == {0, 4, 5, 7, 8, 11, 12, 27, 28, 37, 38}

AllocationVersions == {V(1, m) : m \in AllocationMinors}

InitAllocation ==
    /\ known = SUPPORTED_VERSIONS
    /\ \/ requested \in AllocationVersions /\ serverMax = V(1, 39)
       \/ requested \in NEGOTIATE_VERSIONS /\ serverMax = V(1, 12)
    /\ pc = "init"
    /\ api_version = NoVersion
    /\ sent = <<>>
    /\ probe = 0
    /\ raised = NoRaise
    /\ gv = NoGv
    /\ cmp = NoCmp
    /\ ret = NoRet
    /\ deco = NoDeco
    /\ cmd = NoCmd
    /\ cols = NoCols
    /\ call = NoCall

NextAllocation ==
    \/ negotiate_api_version
    \/ SetAllocation
    \/ DeleteInventory

SpecAllocation == InitAllocation /\ [][NextAllocation]_vars

(***************************************************************************)
(* Claims: negotiation                                                     *)
(***************************************************************************)
\* the probe: GET / sent with raise_exc=False
IsProbe(r) == r.method = "GET" /\ r.url = "/" /\ r.raise_exc = "False"

NumProbes == Cardinality({i \in 1..Len(sent) : IsProbe(sent[i])})

\* C1: a client built from the sentinel has sent the probe GET / first, and
\* its active revision is the server's max_version when the probe was
\* answered 406 and the client's guessed maximum for every other status.
C1_NegotiatedRevision ==
    (pc = "ready" /\ requested \in NEGOTIATE_VERSIONS) =>
        /\ Len(sent) >= 1
        /\ IsProbe(sent[1])
        /\ probe # 0
        /\ (probe = 406 => api_version = serverMax)
        /\ (probe # 406 => api_version = MAX_VERSION_NO_GAP)

C1_Witness ==
    /\ pc = "ready"
    /\ requested \in NEGOTIATE_VERSIONS
    /\ probe = 406
    /\ api_version = serverMax
    /\ api_version # MAX_VERSION_NO_GAP

\* C2: constructing a client with a literal revision sends nothing and
\* makes the literal the active revision, whether or not the literal is in
\* the list of known revisions.
C2_LiteralAdopted ==
    [][(pc = "init" /\ pc' = "ready" /\ requested \notin NEGOTIATE_VERSIONS)
         => (sent' = <<>> /\ probe' = 0 /\ api_version' = requested)]_vars

C2_Witness ==
    /\ pc = "ready"
    /\ requested = V(1, 23)
    /\ \A i \in 1..Len(known) : known[i] # requested
    /\ api_version = V(1, 23)
    /\ sent = <<>>

\* C3: nothing is sent before construction, construction sends no request
\* for a literal and exactly one probe for the sentinel, and no further
\* probe is ever sent, whatever the probe was answered.
C3_AtMostOneProbe ==
    /\ pc = "init" => sent = <<>>
    /\ pc = "ready" =>
         NumProbes = (IF requested \in NEGOTIATE_VERSIONS THEN 1 ELSE 0)
    /\ \A i \in 2..Len(sent) : ~IsProbe(sent[i])

C3_Witness ==
    /\ pc = "ready"
    /\ probe = 406
    /\ Len(sent) >= 2
    /\ NumProbes = 1

\* C4: once the client is constructed no step changes api_version, a
\* request with a version override or a request that fails included.
C4_RevisionFrozen ==
    [][pc = "ready" => api_version' = api_version]_vars

C4_Witness ==
    /\ pc = "ready"
    /\ raised.status = 404
    /\ Len(sent) >= 1
    /\ sent[Len(sent)].headers["OpenStack-API-Version"]
           = <<"placement", " ">> \o V(1, 5)
    /\ api_version # V(1, 5)

\* C5: after negotiation from the sentinel the active revision is greater
\* neither than the client's guessed maximum nor than the server's
\* max_version.
C5_MutualMaximum ==
    (pc = "ready" /\ requested \in NEGOTIATE_VERSIONS) =>
        /\ StrictVersionCmp(StrictVersion(api_version),
                            StrictVersion(MAX_VERSION_NO_GAP)) <= 0
        /\ StrictVersionCmp(StrictVersion(api_version),
                            StrictVersion(serverMax)) <= 0

\* C6: the guessed maximum is the entry of the known list just before the
\* first two neighbours whose minors do not differ by exactly 1, or the
\* last entry of a list without such neighbours; it is 1.12 for the list
\* that skips 1.13.
C6_MaxVersionNoGap ==
    LET n        == Len(known)
        Minor(i) == CHOOSE m \in 0..40 : known[i] = V(1, m)
        gaps     == {i \in 1..(n - 1) : Minor(i + 1) - Minor(i) # 1}
        first    == CHOOSE i \in gaps : \A j \in gaps : i <= j
    IN  /\ MAX_VERSION_NO_GAP = (IF gaps = {} THEN known[n] ELSE known[first])
        /\ (known = GapAfter12 => MAX_VERSION_NO_GAP = V(1, 12))

C6_Witness ==
    /\ known = GapAfter12
    /\ pc = "ready"
    /\ requested \in NEGOTIATE_VERSIONS
    /\ probe = 200
    /\ api_version = V(1, 12)

\* C7: get_version of an object whose session is None returns the guessed
\* maximum and does not read the api_version of the placement client.
C7_NoSessionGuessedMaximum ==
    (gv.called /\ gv.session_none) =>
        (gv.result = MAX_VERSION_NO_GAP /\ ~gv.read)

(***************************************************************************)
(* Claims: the evaluator                                                   *)
(***************************************************************************)
\* C8: in ALL mode the evaluation succeeds iff every predicate holds at the
\* revision, in ANY mode iff at least one predicate holds.
C8_AllAny ==
    cmp.done =>
        LET n        == Len(cmp.predicates)
            Holds(i) == Call(cmp.predicates[i], cmp.ver) = RTrue
        IN  (cmp.result = RTrue) <=>
                (IF cmp.op = "all" THEN \A i \in 1..n : Holds(i)
                                   ELSE \E i \in 1..n : Holds(i))

C8_Witness ==
    /\ cmp.done
    /\ cmp.op = "any"
    /\ Len(cmp.predicates) = 2
    /\ Call(cmp.predicates[1], cmp.ver) # RTrue
    /\ Call(cmp.predicates[2], cmp.ver) = RTrue
    /\ cmp.result = RTrue

\* C9: each of lt, le, eq, ne, ge, gt built on b and evaluated at a agrees
\* with the comparison of the integer pairs (major, minor) in lexicographic
\* order: 1.9 is less than 1.10, ge(X) holds at X and gt(X) does not.
C9_PairOrder ==
    (cmp.done /\ Len(cmp.predicates) = 1) =>
        LET p == cmp.predicates[1]
            a == CHOOSE x \in CmpPairs : cmp.ver = V(x[1], x[2])
            b == CHOOSE x \in BoundPairs : p.b = V(x[1], x[2])
            less  == a[1] < b[1] \/ (a[1] = b[1] /\ a[2] < b[2])
            equal == a[1] = b[1] /\ a[2] = b[2]
            expected == CASE p.func = "lt" -> less
                          [] p.func = "le" -> less \/ equal
                          [] p.func = "eq" -> equal
                          [] p.func = "ne" -> ~equal
                          [] p.func = "ge" -> ~less
                          [] p.func = "gt" -> ~less /\ ~equal
        IN  /\ (cmp.result = RTrue) <=> expected
            /\ (p.func = "ge" /\ p.b = cmp.ver) => cmp.result = RTrue
            /\ (p.func = "gt" /\ p.b = cmp.ver) => cmp.result # RTrue
            /\ (p.func = "lt" /\ cmp.ver = V(1, 9) /\ p.b = V(1, 10))
                   => cmp.result = RTrue

C9_Witness ==
    /\ cmp.done
    /\ cmp.ver = V(1, 9)
    /\ cmp.predicates = <<lt(V(1, 10))>>
    /\ cmp.result = RTrue

\* C10: a failed evaluation at v yields 'Operation or argument is not
\* supported with version v; ' followed by the reasons of the unsatisfied
\* predicates, in the order given, joined with ', and ' in ALL mode and
\* ', or ' in ANY mode.
C10_Message ==
    (cmp.done /\ cmp.result # RTrue) =>
        LET Reason(p) ==
                (CASE p.func = "lt" -> <<"requires version less than ">>
                   [] p.func = "le" -> <<"requires at most version ">>
                   [] p.func = "eq" -> <<"requires version ">>
                   [] p.func = "ne" -> <<"can not use version ">>
                   [] p.func = "ge" -> <<"requires at least version ">>
                   [] p.func = "gt" -> <<"requires version greater than ">>)
                \o p.b
            Unsatisfied(p) == Call(p, cmp.ver) # RTrue
            failed == SelectSeq(cmp.predicates, Unsatisfied)
            sep    == IF cmp.op = "all" THEN <<", and ">> ELSE <<", or ">>
            RECURSIVE Joined(_)
            Joined(l) == IF Len(l) = 0 THEN <<>>
                         ELSE IF Len(l) = 1 THEN Reason(l[1])
                         ELSE Reason(l[1]) \o sep \o Joined(Tail(l))
            tail   == Joined(failed)
        IN  /\ cmp.result.kind = "str"
            /\ cmp.result.msg =
                   <<"Operation or argument is not supported with version ">>
                   \o cmp.ver \o <<"; ">> \o tail
            /\ (cmp.ver = V(1, 0) /\ cmp.predicates = <<ge(V(1, 8))>>) =>
                   cmp.result.msg =
                       <<"Operation or argument is not supported with version ",
                         "1", ".", "0", "; ",
                         "requires at least version ", "1", ".", "8">>

C10_Witness ==
    /\ cmp.done
    /\ cmp.op = "all"
    /\ cmp.ver = V(1, 8)
    /\ cmp.predicates = <<ge(V(1, 9)), eq(V(1, 0))>>
    /\ cmp.result.kind = "str"
    /\ Len(cmp.result.msg) > 12

(***************************************************************************)
(* Claims: the hard and the soft form                                      *)
(***************************************************************************)
\* C11: when the active revision or the bound of a predicate is not two
\* dot-separated non-negative integers, the evaluation and both forms of
\* compare fail with the malformed-revision error and never yield True,
\* False or the unsupported-version message.
C11_MalformedFailsFast ==
    LET IsRevision(s) ==
            LET parts == Split(s)
            IN  Len(parts) = 2 /\ AllDigits(parts[1]) /\ AllDigits(parts[2])
        malformed ==
            \/ ~IsRevision(cmp.ver)
            \/ \E i \in 1..Len(cmp.predicates) :
                   ~IsRevision(cmp.predicates[i].b)
    IN  (malformed /\ Len(cmp.predicates) >= 1) =>
            /\ cmp.done => cmp.result = RValueError
            /\ ret.done =>
                   ret.outcome = Raised("ValueError", InvalidVersionNumber)

\* C12: on valid revisions the hard form returns True when the requirement
\* is satisfied and raises ValueError with the unsupported-version message
\* when it is not; the soft form returns True or False and never raises.
C12_HardSoft ==
    ret.done =>
        LET n         == Len(cmp.predicates)
            Holds(i)  == Call(cmp.predicates[i], cmp.ver) = RTrue
            satisfied == IF cmp.op = "all" THEN \A i \in 1..n : Holds(i)
                                           ELSE \E i \in 1..n : Holds(i)
            prefix    ==
                <<"Operation or argument is not supported with version ">>
                \o cmp.ver \o <<"; ">>
        IN  /\ satisfied => ret.outcome = Returned(TRUE)
            /\ (~satisfied /\ ret.exc) =>
                   /\ ret.outcome.kind = "raise"
                   /\ ret.outcome.exc = "ValueError"
                   /\ Len(ret.outcome.msg) >= Len(prefix)
                   /\ SubSeq(ret.outcome.msg, 1, Len(prefix)) = prefix
                   /\ cmp.done => ret.outcome.msg = cmp.result.msg
            /\ (~satisfied /\ ~ret.exc) => ret.outcome = Returned(FALSE)

C12_Witness ==
    /\ ret.done
    /\ ~ret.exc
    /\ cmp.ver = V(1, 0)
    /\ cmp.predicates = <<ge(V(1, 8))>>
    /\ ret.outcome = Returned(FALSE)

Gates ==
    LET args == cmd.args
        Has(option) == \E i \in 1..Len(args.argv) : args.argv[i][1] = option
    IN  CASE cmd.name \in {"aggregate set", "aggregate list"} ->
                 {1} \cup (IF cmd.name = "aggregate set"
                              /\ args.generation # None THEN {19} ELSE {})
          [] cmd.name = "allocation unset" -> {12}
          [] cmd.name = "inventory set" ->
                 IF args.aggregate THEN {3} ELSE {}
          [] cmd.name \in {"resource provider create",
                           "resource provider set"} ->
                 IF args.parent_provider # None THEN {14} ELSE {}
          [] cmd.name = "resource provider list" ->
                 (IF args.aggregate_uuid # <<>> \/ args.member_of # <<>>
                  THEN {3} ELSE {})
                 \cup (IF args.resource # <<>> THEN {4} ELSE {})
                 \cup (IF args.in_tree # None THEN {14} ELSE {})
                 \cup (IF args.required # <<>> THEN {18} ELSE {})
                 \cup (IF args.forbidden # <<>> THEN {22} ELSE {})
          [] cmd.name = "allocation candidate list" ->
                 {10}
                 \cup (IF Has("limit") THEN {16} ELSE {})
                 \cup (IF Has("required") THEN {17} ELSE {})
                 \cup (IF Has("member_of") \/ Has("aggregate_uuid")
                       THEN {21} ELSE {})
                 \cup (IF Has("forbidden") THEN {22} ELSE {})
                 \cup (IF Has("group") THEN {25} ELSE {})
          [] OTHER -> {}

\* the gates of the invocation that the Active Revision does not satisfy
UnsatisfiedGates ==
    LET minor == CHOOSE m \in 0..40 : cmd.ver = V(1, m)
    IN  {m \in Gates : minor < m}

\* the invocation failed with the standard message: the Active Revision
\* and a later revision that is required
StandardFailure ==
    /\ cmd.status = "error"
    /\ cmd.error.exc = "ValueError"
    /\ \E m \in 1..39 :
         /\ cmd.ver \in {V(1, n) : n \in 0..(m - 1)}
         /\ cmd.error.msg = err_msg(cmd.ver) \o ge(V(1, m)).msg

C15_RequiredByRevision ==
    LET minor == CHOOSE m \in 0..40 : cmd.ver = V(1, m)
    IN  /\ cmd.name = "allocation set" =>
              ((cmd.status = "usage") <=>
                   \/ minor >= 8 /\ cmd.args.project_id = None
                   \/ minor >= 8 /\ cmd.args.user_id = None
                   \/ minor >= 38 /\ cmd.args.consumer_type = None)
        /\ cmd.name = "inventory delete" =>
              ((cmd.status = "usage") <=>
                   (minor < 5 /\ cmd.args.resource_class = None))
        /\ (cmd.name \in {"allocation set", "inventory delete"}
            /\ cmd.status = "usage") => cmd.reqs = <<>> /\ CommandRequests = 0

C15_Witness ==
    /\ cmd.name = "allocation set"
    /\ cmd.ver = V(1, 8)
    /\ cmd.args.project_id = "p1"
    /\ cmd.args.user_id = None
    /\ cmd.status = "usage"

\* C16: allocation set given --project-id or --user-id below 1.8, or
\* --consumer-type below 1.38, with valid allocations and no failing
\* request, completes: it logs the warning about the option, issues the
\* PUT, and the body of the PUT has no field for the option.
C16_IneffectiveOptions ==
    (cmd.name = "allocation set" /\ cmd.status # "usage") =>
        LET minor  == CHOOSE m \in 0..40 : cmd.ver = V(1, m)
            parsed == parse_allocations(cmd.args.allocation)
            valid  == parsed.kind = "return" /\ parsed.value # <<>>
            ids    == minor < 8 /\ (cmd.args.project_id # None
                                    \/ cmd.args.user_id # None)
            type   == minor < 38 /\ cmd.args.consumer_type # None
            n      == Len(cmd.reqs)
            puts   == {i \in 1..n : cmd.reqs[i].method = "PUT"}
            Warned(text) == \E i \in 1..Len(cmd.warnings) :
                                cmd.warnings[i] = text
        IN  ((ids \/ type) /\ valid /\ cmd.error.status = 0) =>
                /\ cmd.status = "ok"
                /\ Cardinality(puts) = 1
                /\ ids =>
                      /\ Warned(<<"--project-id and --user-id options do not ",
                                  "affect allocation for ",
                                  "--os-placement-api-version less than 1.8">>)
                      /\ \A i \in puts :
                            {"project_id", "user_id"}
                                \cap DOMAIN cmd.reqs[i].kwargs.json = {}
                /\ type =>
                      /\ Warned(<<"--consumer-type option does not affect ",
                                  "allocation for --os-placement-api-version less ",
                                  "than 1.38">>)
                      /\ \A i \in puts :
                            "consumer_type" \notin DOMAIN cmd.reqs[i].kwargs.json

C16_Witness ==
    /\ cmd.name = "allocation set"
    /\ cmd.ver = V(1, 7)
    /\ cmd.args.project_id = "p1"
    /\ cmd.args.consumer_type = "INSTANCE"
    /\ cmd.status = "ok"
    /\ Len(cmd.warnings) = 2

\* C17: in the body of the PUT of allocation set, 'allocations' is below
\* 1.12 a list of {resource_provider: {uuid}, resources} and from 1.12 a
\* mapping from provider uuid to {resources}; in both shapes it carries the
\* (provider, resource class, amount) triples of the --allocation options.
C17_AllocationsShape ==
    cmd.name = "allocation set" =>
        LET minor == CHOOSE m \in 0..40 : cmd.ver = V(1, m)
            n     == Len(cmd.reqs)
            puts  == {i \in 1..n : cmd.reqs[i].method = "PUT"}
            given == {<<<<s[3]>>, <<s[5]>>, ToInt(SubSeq(s, 7, Len(s)))>> :
                         s \in {cmd.args.allocation[i] :
                                    i \in 1..Len(cmd.args.allocation)}}
            Triples(body) ==
                IF body.type = "array"
                THEN UNION {{<<body.items[i].resource_provider.uuid,
                               body.items[i].resources[j][1],
                               body.items[i].resources[j][2]>> :
                                 j \in 1..Len(body.items[i].resources)} :
                            i \in 1..Len(body.items)}
                ELSE UNION {{<<body.items[i][1],
                               body.items[i][2].resources[j][1],
                               body.items[i][2].resources[j][2]>> :
                                 j \in 1..Len(body.items[i][2].resources)} :
                            i \in 1..Len(body.items)}
        IN  \A p \in puts :
                LET body == cmd.reqs[p].kwargs.json.allocations
                IN  /\ minor < 12 =>
                          /\ body.type = "array"
                          /\ \A i \in 1..Len(body.items) :
                                /\ DOMAIN body.items[i] =
                                       {"resource_provider", "resources"}
                                /\ DOMAIN body.items[i].resource_provider =
                                       {"uuid"}
                    /\ minor >= 12 =>
                          /\ body.type = "object"
                          /\ \A i \in 1..Len(body.items) :
                                /\ DOMAIN body.items[i][2] = {"resources"}
                                /\ \A j \in 1..Len(body.items) :
                                      body.items[i][1] = body.items[j][1]
                                          => i = j
                    /\ Triples(body) = given

C17_Witness ==
    /\ cmd.name = "allocation set"
    /\ cmd.ver = V(1, 12)
    /\ Len(cmd.args.allocation) = 2
    /\ cmd.args.allocation[1] # cmd.args.allocation[2]
    /\ cmd.status = "ok"
    /\ Len(cmd.reqs) = 2
    /\ cmd.reqs[1].kwargs.json.allocations.type = "object"
    /\ Len(cmd.reqs[1].kwargs.json.allocations.items) = 1

\* C18: a successful allocation set has sent, to the url of the consumer, a
\* GET before the PUT exactly from 1.28, then one PUT, then one GET; the
\* body of the PUT has consumer_generation exactly when that first GET was
\* sent, with the value the GET answered, None when it answered none.
C18_ReadWriteRead ==
    cmd.name = "allocation set" =>
        LET minor == CHOOSE m \in 0..40 : cmd.ver = V(1, m)
            n     == Len(cmd.reqs)
            first == Len(sent) - n
            puts  == {i \in 1..n : cmd.reqs[i].method = "PUT"}
        IN  /\ \A i \in 1..n :
                  /\ sent[first + i].method = cmd.reqs[i].method
                  /\ sent[first + i].url = cmd.reqs[i].url
                  /\ cmd.reqs[i].url = "/allocations/c1"
            /\ first = (IF probe # 0 THEN 1 ELSE 0)
            /\ cmd.status = "ok" =>
                  [i \in 1..n |-> cmd.reqs[i].method] =
                      (IF minor >= 28 THEN <<"GET", "PUT", "GET">>
                                      ELSE <<"PUT", "GET">>)
            /\ \A p \in puts :
                  LET json == cmd.reqs[p].kwargs.json
                  IN  /\ ("consumer_generation" \in DOMAIN json) <=> p = 2
                      /\ p = 2 <=> minor >= 28
                      /\ p = 2 =>
                            /\ cmd.reqs[1].method = "GET"
                            /\ json.consumer_generation =
                                  (IF "consumer_generation"
                                          \in DOMAIN cmd.reqs[1].response
                                   THEN cmd.reqs[1].response.consumer_generation
                                   ELSE None)

C18_Witness ==
    /\ cmd.name = "allocation set"
    /\ cmd.ver = V(1, 28)
    /\ cmd.status = "ok"
    /\ Len(cmd.reqs) = 3
    /\ cmd.reqs[1].response.allocations = <<>>
    /\ cmd.reqs[2].kwargs.json.consumer_generation = None

(***************************************************************************)
(* The output fields of a command, as a function of the revision           *)
(***************************************************************************)
\* the commands that print fields
FieldCommands ==
    {"allocation set", "allocation show", "allocation unset",
     "resource provider create", "resource provider list",
     "resource provider set", "resource provider show",
     "allocation candidate list", "inventory set"}

\* the revisions the fields are computed at: around 1.12, 1.14, 1.17, 1.38
FieldMinors == {0, 11, 12, 13, 14, 16, 17, 37, 38, 39}

\* the revisions at which the command gets as far as its fields
Runs(name, self) ==
    CASE name = "allocation candidate list" -> self.compare_version[ge(V(1, 10))]
      [] name = "allocation unset"          -> self.compare_version[ge(V(1, 12))]
      [] OTHER                              -> TRUE

\* fields, as take_action of the command returns it; flag is --allocations
\* of resource provider show and --aggregate of inventory set
CommandFields(name, flag, self) ==
    CASE name \in {"allocation set", "allocation show"} ->
            Allocation_fields(self)
      [] name = "allocation unset" -> UnsetAllocation_fields(self)
      [] name \in {"resource provider create", "resource provider list",
                   "resource provider set"} ->
            ResourceProvider_fields(self)
      [] name = "resource provider show" ->
            ShowResourceProvider_fields(self, flag)
      [] name = "allocation candidate list" ->
            ListAllocationCandidate_fields(self)
      [] name = "inventory set" ->
            (IF flag THEN <<"resource_provider">> ELSE <<>>)
            \o <<"resource_class">> \o FIELDS

\* the keys take_action of the command reads from what the server answers
CommandKeys(name, flag, self) ==
    CASE name \in {"allocation set", "allocation show"} ->
            {"allocations"} \cup Allocation_keys(self)
      [] name = "allocation unset" ->
            {"allocations"} \cup UnsetAllocation_keys(self)
      [] name \in {"resource provider create", "resource provider list",
                   "resource provider set"} ->
            Range(ResourceProvider_fields(self))
      [] name = "resource provider show" ->
            Range(ShowResourceProvider_fields(self, flag))
      [] name = "allocation candidate list" ->
            {"provider_summaries", "allocation_requests"}
            \cup ListAllocationCandidate_keys(self)
      [] name = "inventory set" ->
            {"inventories"} \cup Range(FIELDS)

InitFields ==
    /\ known = SUPPORTED_VERSIONS
    /\ requested = V(1, 0)
    /\ serverMax = V(1, 39)
    /\ pc = "init"
    /\ api_version = NoVersion
    /\ sent = <<>>
    /\ probe = 0
    /\ raised = NoRaise
    /\ gv = NoGv
    /\ cmp = NoCmp
    /\ ret = NoRet
    /\ deco = NoDeco
    /\ cmd = NoCmd
    /\ call = NoCall
    /\ \E name \in FieldCommands, flag \in BOOLEAN, lo, hi \in FieldMinors :
          /\ lo <= hi
          /\ Runs(name, CheckerMixin(V(1, lo)))
          /\ cols = [done |-> FALSE, name |-> name, flag |-> flag,
                     lo |-> V(1, lo), hi |-> V(1, hi)]

\* the same command line at the two revisions
Columns ==
    /\ ~cols.done
    /\ \E lo \in {CheckerMixin(cols.lo)}, hi \in {CheckerMixin(cols.hi)} :
          cols' = [done |-> TRUE, name |-> cols.name, flag |-> cols.flag,
                   lo |-> cols.lo, hi |-> cols.hi,
                   lo_fields |-> CommandFields(cols.name, cols.flag, lo),
                   hi_fields |-> CommandFields(cols.name, cols.flag, hi),
                   lo_keys   |-> CommandKeys(cols.name, cols.flag, lo),
                   hi_keys   |-> CommandKeys(cols.name, cols.flag, hi)]
    /\ UNCHANGED <<clientVars, cmp, ret, deco, cmd, call>>

NextFields == Columns

SpecFields == InitFields /\ [][NextFields]_vars

(***************************************************************************)
(* Claims: the output fields                                               *)
(***************************************************************************)
\* s is the beginning of t
IsPrefix(s, t) == Len(s) <= Len(t) /\ SubSeq(t, 1, Len(s)) = s

\* the fields a later revision adds to a command
AppendedFields ==
    {"project_id", "user_id", "consumer_type", "root_provider_uuid",
     "parent_provider_uuid", "traits"}

\* an added field is read from the response only where it is a column
ReadWhereAppended(keys, fields) ==
    \A f \in AppendedFields : f \in keys => f \in Range(fields)

\* C19 as stated: the fields at revision v are a prefix of the fields of
\* the same command line at any revision v' >= v, and an added field is read
\* from the response only at the revisions that add it.
C19_FieldsArePrefix ==
    cols.done =>
        /\ IsPrefix(cols.lo_fields, cols.hi_fields)
        /\ ReadWhereAppended(cols.lo_keys, cols.lo_fields)
        /\ ReadWhereAppended(cols.hi_keys, cols.hi_fields)

\* C19 amended: the fields at revision v are the fields at v' >= v without
\* those v' adds, in the same order; they are a prefix of them for every
\* command line but resource provider show --allocations, whose allocations
\* column stays last; an added field is read from the response only at the
\* revisions that add it.
C19_FieldsOnlyAdded ==
    cols.done =>
        LET Kept(f) == f \in Range(cols.lo_fields)
        IN  /\ SelectSeq(cols.hi_fields, Kept) = cols.lo_fields
            /\ \A f \in Range(cols.hi_fields) \ Range(cols.lo_fields) :
                  f \in AppendedFields
            /\ cols.name = "resource provider show" /\ cols.flag
                  => cols.hi_fields[Len(cols.hi_fields)] = "allocations"
            /\ ~(cols.name = "resource provider show" /\ cols.flag)
                  => IsPrefix(cols.lo_fields, cols.hi_fields)
            /\ ReadWhereAppended(cols.lo_keys, cols.lo_fields)
            /\ ReadWhereAppended(cols.hi_keys, cols.hi_fields)

C19_Witness ==
    /\ cols.done
    /\ cols.name = "resource provider show"
    /\ cols.flag
    /\ cols.lo = V(1, 13)
    /\ cols.hi = V(1, 14)
    /\ cols.lo_fields = <<"uuid", "name", "generation", "allocations">>
    /\ cols.hi_fields = <<"uuid", "name", "generation", "root_provider_uuid",
                          "parent_provider_uuid", "allocations">>

(***************************************************************************)
(* The client, called with headers of the caller's own                     *)
(***************************************************************************)
InitHeaders ==
    /\ known = SUPPORTED_VERSIONS
    /\ requested \in RequestedVersions
    /\ serverMax \in ServerVersions
    /\ pc = "init"
    /\ api_version = NoVersion
    /\ sent = <<>>
    /\ probe = 0
    /\ raised = NoRaise
    /\ gv = NoGv
    /\ cmp = NoCmp
    /\ ret = NoRet
    /\ deco = NoDeco
    /\ cmd = NoCmd
    /\ cols = NoCols
    /\ call = NoCall

RequestHeaders ==
    \E method \in Methods, url \in Urls, version \in VersionOverrides,
       headers \in HeaderOverrides, outcome \in SessionOutcomes :
        request(method, url, version, headers, outcome, NoDetail)

NextHeaders ==
    \/ negotiate_api_version
    \/ RequestHeaders

SpecHeaders == InitHeaders /\ [][NextHeaders]_vars

(***************************************************************************)
(* Claims: the headers of a request                                        *)
(***************************************************************************)
\* the value of OpenStack-API-Version for a revision
ServiceVersion(v) == <<"placement", " ">> \o v

\* C20 as stated: every request carries OpenStack-API-Version with the
\* service type and the Active Revision, the guessed maximum for the probe,
\* and Accept: application/json.
C20_HeadersOfActiveRevision ==
    \A i \in 1..Len(sent) :
        /\ sent[i].headers["OpenStack-API-Version"] =
              ServiceVersion(IF IsProbe(sent[i]) THEN MAX_VERSION_NO_GAP
                                                 ELSE api_version)
        /\ sent[i].headers["Accept"] = <<"application/json">>

\* C20 amended: the probe carries the service type with the guessed maximum
\* and Accept: application/json; a request of a caller carries the headers
\* the caller passed, and where the caller passed none, OpenStack-API-Version
\* with the service type and the version keyword, the Active Revision when
\* there is no such keyword, and Accept: application/json.
C20_HeadersByDefault ==
    /\ probe # 0 =>
          /\ sent[1].headers["OpenStack-API-Version"] =
                ServiceVersion(MAX_VERSION_NO_GAP)
          /\ sent[1].headers["Accept"] = <<"application/json">>
    /\ call.called =>
          LET headers == sent[Len(sent)].headers
              own     == DOMAIN call.headers
          IN  /\ \A h \in own : headers[h] = call.headers[h]
              /\ "Accept" \notin own =>
                    headers["Accept"] = <<"application/json">>
              /\ "OpenStack-API-Version" \notin own =>
                    headers["OpenStack-API-Version"] =
                        ServiceVersion(IF call.version # NoVersion
                                       THEN call.version ELSE api_version)

C20_Witness ==
    /\ probe = 406
    /\ api_version # MAX_VERSION_NO_GAP
    /\ Len(sent) = 3
    /\ call.called
    /\ call.version = NoVersion
    /\ call.headers = NoHeaders
    /\ sent[2].headers["OpenStack-API-Version"] = ServiceVersion(V(1, 5))
    /\ sent[3].headers["OpenStack-API-Version"] = ServiceVersion(api_version)

(***************************************************************************)
(* The client, when the session raises                                     *)
(***************************************************************************)
\* the statuses of the HttpError the session raises, 0 when it raises none
ErrorStatuses == {0, 400, 404, 409, 418, 499, 500, 501}

\* errors[0].detail of the response of the HttpError
Details ==
    {<<>>,
     <<"a">>,
     <<"a", "\n", "\n", "b", " ", "c">>,
     <<"a", "\n", " ", "b", "\t">>,
     <<" ", "b", "\n">>}

RequestFails ==
    \E method \in Methods, url \in Urls, outcome \in ErrorStatuses,
       detail \in Details :
        request(method, url, NoVersion, NoHeaders, outcome, detail)

NextErrors ==
    \/ negotiate_api_version
    \/ RequestFails

SpecErrors == InitHeaders /\ [][NextErrors]_vars

(***************************************************************************)
(* Claims: the errors of the transport                                     *)
(***************************************************************************)
\* C21: when the session raises an HttpError, request() raises: for a status
\* in 400..499 the osc-lib exception of that status, CommandError when there
\* is none, with the same status and with the last line of the detail,
\* trimmed, as its message; for any other status the HttpError itself.  The
\* request that raised was sent once.
C21_WrappedErrors ==
    /\ [](call.called /\ call.outcome # 0 =>
            LET detail  == call.detail
                breaks  == {i \in 1..Len(detail) : detail[i] = "\n"}
                start   == IF breaks = {} THEN 1
                           ELSE 1 + CHOOSE i \in breaks :
                                        \A j \in breaks : j <= i
                inked   == {i \in start..Len(detail) :
                               detail[i] \notin {" ", "\t"}}
                message == IF inked = {} THEN <<>>
                           ELSE SubSeq(detail,
                                       CHOOSE i \in inked : \A j \in inked : i <= j,
                                       CHOOSE i \in inked : \A j \in inked : j <= i)
            IN  IF call.outcome \in 400..499
                THEN /\ raised.exc = "osc_lib"
                     /\ raised.class =
                           (CASE call.outcome = 400 -> "BadRequest"
                              [] call.outcome = 404 -> "NotFound"
                              [] call.outcome = 409 -> "Conflict"
                              [] OTHER -> "CommandError")
                     /\ raised.status = call.outcome
                     /\ raised.msg = message
                ELSE raised = [exc |-> "keystoneauth", class |-> "HttpError",
                               status |-> call.outcome, detail |-> detail])
    /\ [][raised' # NoRaise /\ raised' # raised
             => Len(sent') = Len(sent) + 1]_vars

C21_Witness ==
    /\ call.called
    /\ call.outcome = 418
    /\ call.detail = <<"a", "\n", " ", "b", "\t">>
    /\ raised.class = "CommandError"
    /\ raised.status = 418
    /\ raised.msg = <<"b">>


(***************************************************************************)
(* Claims: inventory set                                                   *)
(***************************************************************************)
\* the calls of http.request that inventory set made for the providers and
\* that the session refused
FailedCalls ==
    {n \in 2..Len(cmd.reqs) : Status(cmd.args.outcomes, n) # 0}

\* C22: in inventory set --aggregate a failure on one provider is logged
\* with the uuid of the provider and does not abort the processing of the
\* remaining providers: every provider of the aggregate is processed, and
\* the command then fails with 'Failed to set inventory for N of T resource
\* providers.', N the number of providers that failed and T the number of
\* providers of the aggregate.
C22_OneFailureDoesNotAbort ==
    (/\ cmd.name = "inventory set"
     /\ cmd.args.aggregate
     /\ Len(cmd.reqs) >= 2
     /\ FailedCalls # {}) =>
        LET rps == cmd.args.members
            Url(i) == "/resource_providers/" \o rps[i].uuid \o "/inventories"
        IN  /\ \A i \in 1..Len(rps) :
                   \E n \in 2..Len(cmd.reqs) : cmd.reqs[n].url = Url(i)
            /\ Len(cmd.warnings) = Cardinality(FailedCalls)
            /\ \A n \in FailedCalls :
                   \E i \in 1..Len(rps), w \in 1..Len(cmd.warnings) :
                       /\ cmd.reqs[n].url = Url(i)
                       /\ cmd.warnings[w][3] = rps[i].uuid
            /\ cmd.status = "error"
            /\ cmd.error =
                   Err("CommandError",
                       <<"Failed to set inventory for ">>
                       \o ToStr(Cardinality(FailedCalls)) \o <<" of ">>
                       \o ToStr(Len(rps)) \o <<" resource providers.">>)


\* the rows of the bodies of the PUT requests among reqs, each with the
\* uuid of its provider before it under --aggregate
PayloadRows(reqs, rps, aggregate) ==
    LET IsPut(r) == r.method = "PUT"
        puts     == SelectSeq(reqs, IsPut)
        fields   == <<"resource_class">> \o FIELDS
        Rows[i \in 0..Len(puts)] ==
            IF i = 0 THEN <<>>
            ELSE Rows[i - 1]
                 \o SetInventory_get_rows(
                        fields, puts[i].kwargs.json,
                        IF aggregate THEN <<rps[i].uuid>> ELSE <<>>)
    IN  Rows[Len(puts)]

\* C24: inventory set with --dry-run issues no PUT and no other request
\* than GET, with and without --aggregate and --amend and for any number of
\* providers, and what it shows are the payloads that the same command line
\* without --dry-run sends, provider by provider.
C24_DryRunSendsNothing ==
    (cmd.name = "inventory set" /\ cmd.args.dry_run) =>
        /\ \A n \in 1..Len(cmd.reqs) : cmd.reqs[n].method = "GET"
        /\ \A n \in 1..Len(sent) : sent[n].method = "GET"
        /\ cmd.status = "ok" =>
               \E self \in {CheckerMixin(cmd.ver)} :
               \E sending \in {SetInventory_take_action(
                                   self,
                                   [cmd.args.parsed_args
                                       EXCEPT !.dry_run = FALSE],
                                   cmd.args.members, <<>>)} :
                   /\ sending.status = "ok"
                   /\ cmd.rows = PayloadRows(sending.reqs,
                                             IF cmd.args.aggregate
                                             THEN cmd.args.members
                                             ELSE <<>>,
                                             cmd.args.aggregate)

C24_Witness ==
    /\ cmd.name = "inventory set"
    /\ cmd.args.dry_run
    /\ cmd.args.aggregate
    /\ cmd.args.amend
    /\ Len(cmd.args.members) = 3
    /\ cmd.args.resource = <<<<"VCPU", "=", "1", "6">>>>
    /\ cmd.status = "ok"
    /\ Len(cmd.reqs) = 4
    /\ Len(cmd.rows) = 6
    /\ cmd.rows[1] = <<"rp1", <<"VCPU">>, "", "", "", 1, "", 16>>


\* C25: without --amend the inventories of the PUT hold exactly the
\* classes and fields that the --resource options name, none without
\* --resource; with --amend a GET of the inventories of the provider comes
\* first, and the PUT holds every class and field that the GET answered,
\* with its value, and those that the options name; a field that an option
\* names has the value of the last option that names it.
C25_ReplaceOrAmend ==
    cmd.name = "inventory set" =>
        \A n \in 1..Len(cmd.reqs) :
            cmd.reqs[n].method = "PUT" =>
                LET inv      == cmd.reqs[n].kwargs.json.inventories
                    resource == cmd.args.resource
                    Name(r)  == <<r[1]>>
                    Field(r) == IF r[2] = ":" THEN <<r[3]>> ELSE <<"total">>
                    Value(r) ==
                        LET at == CHOOSE i \in 1..Len(r) : r[i] = "="
                            d  == SubSeq(r, at + 1, Len(r))
                            N[i \in 0..Len(d)] ==
                                IF i = 0 THEN 0
                                ELSE 10 * N[i - 1]
                                     + (CHOOSE k \in 0..9 : ToStr(k) = <<d[i]>>)
                        IN  N[Len(d)]
                    existing == IF cmd.args.amend
                                THEN cmd.reqs[n - 1].response.inventories
                                ELSE <<>>
                    Naming(c, f) ==
                        {j \in 1..Len(resource) :
                            Name(resource[j]) = c /\ Field(resource[j]) = f}
                    classes ==
                        {existing[i][1] : i \in 1..Len(existing)}
                        \cup {Name(resource[j]) : j \in 1..Len(resource)}
                    Had(c) ==
                        IF \E i \in 1..Len(existing) : existing[i][1] = c
                        THEN LET i == CHOOSE i \in 1..Len(existing) :
                                          existing[i][1] = c
                             IN  {existing[i][2][k] :
                                     k \in 1..Len(existing[i][2])}
                        ELSE {}
                    Fields(c) ==
                        {kv[1] : kv \in Had(c)}
                        \cup {Field(resource[j]) :
                                 j \in {j \in 1..Len(resource) :
                                           Name(resource[j]) = c}}
                    Expected(c, f) ==
                        IF Naming(c, f) # {}
                        THEN Value(resource[
                                 CHOOSE j \in Naming(c, f) :
                                     \A k \in Naming(c, f) : k <= j])
                        ELSE (CHOOSE kv \in Had(c) : kv[1] = f)[2]
                IN  /\ cmd.args.amend =>
                           /\ n > 1
                           /\ cmd.reqs[n - 1].method = "GET"
                           /\ cmd.reqs[n - 1].url = cmd.reqs[n].url
                    /\ {inv[i][1] : i \in 1..Len(inv)} = classes
                    /\ Len(inv) = Cardinality(classes)
                    /\ \A i \in 1..Len(inv) :
                           /\ {inv[i][2][k][1] : k \in 1..Len(inv[i][2])}
                                  = Fields(inv[i][1])
                           /\ Len(inv[i][2]) = Cardinality(Fields(inv[i][1]))
                           /\ \A k \in 1..Len(inv[i][2]) :
                                  inv[i][2][k][2]
                                      = Expected(inv[i][1], inv[i][2][k][1])

C25_Witness ==
    /\ cmd.name = "inventory set"
    /\ cmd.args.amend
    /\ ~cmd.args.aggregate
    /\ Len(cmd.args.resource) = 3
    /\ cmd.status = "ok"
    /\ Len(cmd.reqs) = 3
    /\ cmd.reqs[3].method = "PUT"
    /\ cmd.reqs[3].kwargs.json.inventories =
           <<<<<<"VCPU">>, <<<<<<"total">>, 8>>, <<<<"reserved">>, 3>>>>>>,
             <<<<"DISK_GB">>, <<<<<<"total">>, 100>>>>>>,
             <<<<"MEMORY_MB">>, <<<<<<"total">>, 4>>>>>>>>


(***************************************************************************)
(* Claims: aggregate set                                                   *)
(***************************************************************************)
\* the invocation of aggregate set sent one request, the PUT of json
SetAggregatePuts(json) ==
    /\ Len(cmd.reqs) = 1
    /\ cmd.reqs[1].method = "PUT"
    /\ cmd.reqs[1].url = "/resource_providers/rp1/aggregates"
    /\ cmd.reqs[1].kwargs = [json |-> json]

\* the cases of aggregate set that do not depend on the gate of the
\* command: --generation below 1.19, and 1.19 or later
SetAggregateCases ==
    LET generation == cmd.args.generation
        below      == cmd.ver \in {V(1, n) : n \in 0..18}
    IN  /\ (below /\ generation # None) =>
               StandardFailure /\ cmd.reqs = <<>>
        /\ (~below /\ generation # None) =>
               SetAggregatePuts(
                   [aggregates |-> cmd.args.aggregate,
                    resource_provider_generation |-> generation])
        /\ (~below /\ generation = None) =>
               /\ cmd.status = "error"
               /\ cmd.error = Err("CommandError",
                                  <<"A generation must be specified.">>)
               /\ cmd.reqs = <<>>

\* C23 as stated: aggregate set has four cases. Below 1.19 without
\* --generation it PUTs the bare list of aggregates; below 1.19 with
\* --generation it fails with the unsupported-version error; from 1.19 with
\* --generation it PUTs aggregates and resource_provider_generation; from
\* 1.19 without --generation it fails with 'A generation must be
\* specified.'; the failing cases send no request.
C23_FourCases ==
    cmd.name = "aggregate set" =>
        /\ SetAggregateCases
        /\ (cmd.ver \in {V(1, n) : n \in 0..18}
            /\ cmd.args.generation = None) =>
               SetAggregatePuts(cmd.args.aggregate)

\* C23, amended: the four cases as stated, the first one from 1.1 only; at
\* 1.0 the command fails with the unsupported-version error and sends no
\* request, with or without --generation.
C23_FourCasesFromGate ==
    cmd.name = "aggregate set" =>
        /\ SetAggregateCases
        /\ (cmd.ver \in {V(1, n) : n \in 1..18}
            /\ cmd.args.generation = None) =>
               SetAggregatePuts(cmd.args.aggregate)
        /\ cmd.ver = V(1, 0) =>
               /\ StandardFailure
               /\ cmd.error.msg = err_msg(cmd.ver) \o ge(V(1, 1)).msg
               /\ cmd.reqs = <<>>

\* aggregate set --aggregate agg1 --aggregate agg2 at 1.18 sends the list
C23_Witness ==
    /\ cmd.name = "aggregate set"
    /\ cmd.ver = V(1, 18)
    /\ cmd.args.generation = None
    /\ cmd.args.aggregate = <<"agg1", "agg2">>
    /\ cmd.status = "ok"
    /\ SetAggregatePuts(<<"agg1", "agg2">>)


(***************************************************************************)
(* Claims: allocation unset                                                *)
(***************************************************************************)
\* allocations as a set of (provider, class, amount)
Amounts(allocations) ==
    UNION {{<<allocations[i][1], allocations[i][2].resources[j][1],
              allocations[i][2].resources[j][2]>> :
               j \in 1..Len(allocations[i][2].resources)} :
           i \in 1..Len(allocations)}

\* what the options of the invocation c of allocation unset leave of the
\* allocations that its first GET read
RemainingOf(c) ==
    LET provider       == c.args.provider
        resource_class == c.args.resource_class
        Named(list, x) == \E k \in 1..Len(list) : list[k] = x
        Removed(t) ==
            IF resource_class # <<>>
            THEN /\ Named(resource_class, t[2])
                 /\ provider = <<>> \/ Named(provider, t[1])
            ELSE provider = <<>> \/ Named(provider, t[1])
    IN  {t \in Amounts(c.reqs[1].response.allocations) : ~Removed(t)}

\* C26: the allocations that allocation unset sends are those read from
\* the server without the ones the options name: all of them with neither
\* option, the named providers with --provider alone, the named classes of
\* every provider, or of the named providers only, with --resource-class; a
\* provider left without resources is not sent; the rest is sent as read,
\* and naming a provider or a class that the consumer does not use is not
\* an error.
C26_UnsetRemovesNamed ==
    (cmd.name = "allocation unset" /\ Len(cmd.reqs) >= 2) =>
        LET read == cmd.reqs[1].response.allocations
            left == RemainingOf(cmd)
        IN  /\ cmd.reqs[2].method = "PUT" =>
                   LET a == cmd.reqs[2].kwargs.json.allocations
                   IN  /\ Amounts(a) = left
                       /\ {a[i][1] : i \in 1..Len(a)} = {t[1] : t \in left}
                       /\ Len(a) = Cardinality({t[1] : t \in left})
                       /\ \A i \in 1..Len(a) :
                              \E j \in 1..Len(read) :
                                  /\ read[j][1] = a[i][1]
                                  /\ read[j][2].generation = a[i][2].generation
            /\ cmd.reqs[2].method # "PUT" => left = {}
            /\ cmd.status = "error" => cmd.error.status # 0

\* allocation unset --provider rp1 --resource-class VCPU leaves rp2 alone
C26_Witness ==
    /\ cmd.name = "allocation unset"
    /\ cmd.args.provider = <<"rp1">>
    /\ cmd.args.resource_class = <<"VCPU">>
    /\ cmd.status = "ok"
    /\ cmd.reqs[1].response.allocations = HeldAllocations
    /\ cmd.reqs[2].method = "PUT"
    /\ cmd.reqs[2].kwargs.json.allocations = <<HeldAllocations[2]>>

\* C28: a successful allocation unset sends three requests, a GET, one
\* request that writes and a GET: the write is a DELETE exactly when nothing
\* is left of the allocations and the revision is below 1.28, and a PUT of
\* what is left otherwise; the command never sends both.
C28_OneWrite ==
    [][(/\ cmd' # cmd
        /\ cmd'.name = "allocation unset"
        /\ cmd'.status = "ok") =>
           LET n == Len(sent)
               below == cmd'.ver \in {V(1, m) : m \in 0..27}
           IN  /\ Len(sent') = n + 3
               /\ SubSeq(sent', 1, n) = sent
               /\ Len(cmd'.reqs) = 3
               /\ \A k \in 1..3 : /\ sent'[n + k].method = cmd'.reqs[k].method
                                  /\ sent'[n + k].url = "/allocations/c1"
               /\ sent'[n + 1].method = "GET"
               /\ sent'[n + 3].method = "GET"
               /\ sent'[n + 2].method =
                      IF RemainingOf(cmd') = {} /\ below
                      THEN "DELETE" ELSE "PUT"
               /\ sent'[n + 2].method = "PUT" =>
                      Amounts(cmd'.reqs[2].kwargs.json.allocations)
                          = RemainingOf(cmd')]_vars

\* at 1.27 the last allocations go with a DELETE, at 1.28 with a PUT
C28_Witness ==
    /\ cmd.name = "allocation unset"
    /\ cmd.status = "ok"
    /\ cmd.args.resource_class = <<"MEMORY_MB", "VCPU">>
    /\ cmd.reqs[1].response.allocations = HeldAllocations
    /\ Len(sent) >= 3
    /\ \/ cmd.ver = V(1, 27) /\ sent[Len(sent) - 1].method = "DELETE"
       \/ /\ cmd.ver = V(1, 28)
          /\ sent[Len(sent) - 1].method = "PUT"
          /\ cmd.reqs[2].kwargs.json.allocations = <<>>

\* C29: the body of the PUT of allocation unset has the keys of the body
\* that the first GET answered, each but 'allocations' with the value that
\* was read: project_id and user_id, consumer_generation from 1.28 and
\* consumer_type from 1.38.
C29_PutKeepsWhatWasRead ==
    (/\ cmd.name = "allocation unset"
     /\ Len(cmd.reqs) >= 2
     /\ cmd.reqs[2].method = "PUT") =>
        LET read == cmd.reqs[1].response
            json == cmd.reqs[2].kwargs.json
        IN  /\ DOMAIN json = DOMAIN read
            /\ \A k \in DOMAIN read \ {"allocations"} : json[k] = read[k]
            /\ read.allocations # <<>> =>
                   /\ {"project_id", "user_id"} \subseteq DOMAIN json
                   /\ cmd.ver \in {V(1, m) : m \in 28..39} =>
                          "consumer_generation" \in DOMAIN json
                   /\ cmd.ver \in {V(1, m) : m \in 38..39} =>
                          "consumer_type" \in DOMAIN json

C29_Witness ==
    /\ cmd.name = "allocation unset"
    /\ cmd.ver = V(1, 38)
    /\ cmd.args.provider = <<"rp1">>
    /\ cmd.args.resource_class = <<>>
    /\ cmd.status = "ok"
    /\ cmd.reqs[2].method = "PUT"
    /\ cmd.reqs[2].kwargs.json =
           [allocations |-> <<HeldAllocations[2]>>,
            project_id |-> "project-of-consumer",
            user_id |-> "user-of-consumer",
            consumer_generation |-> "1",
            consumer_type |-> "INSTANCE"]


(***************************************************************************)
(* Claims: allocation set without --allocation                             *)
(***************************************************************************)
\* C27: allocation set without any --allocation fails with 'At least one
\* resource allocation must be specified' at every revision, and it sends
\* neither a PUT nor a DELETE; the only request it sends is the GET of the
\* consumer generation, from 1.28.
C27_NoAllocationNoWrite ==
    (cmd.name = "allocation set" /\ cmd.args.allocation = <<>>) =>
        /\ \A n \in 1..Len(cmd.reqs) : cmd.reqs[n].method = "GET"
        /\ \A n \in 1..Len(sent) : sent[n].method = "GET"
        /\ (cmd.status # "usage" /\ cmd.error.status = 0) =>
               /\ cmd.status = "error"
               /\ cmd.error =
                      Err("CommandError",
                          <<"At least one resource allocation must be specified">>)
               /\ Len(cmd.reqs) =
                      IF cmd.ver \in {V(1, m) : m \in 0..27} THEN 0 ELSE 1

\* at 1.28, after the GET, and at 1.0, without any request
C27_Witness ==
    /\ cmd.name = "allocation set"
    /\ cmd.args.allocation = <<>>
    /\ cmd.status = "error"
    /\ cmd.error.exc = "CommandError"
    /\ \/ cmd.ver = V(1, 28) /\ Len(cmd.reqs) = 1 /\ Len(sent) = 1
       \/ cmd.ver = V(1, 0) /\ sent = <<>>


(***************************************************************************)
(* Claims: the traits of the request groups of allocation candidate list   *)
(*                                                                         *)
(* Command lines of request groups: the unnumbered one, when there is one, *)
(* and then --group 1 to --group n, each with a --resource and with        *)
(* --required, --forbidden, both or neither.  The traits of a group carry  *)
(* its suffix, so that a trait tells the group it was given in.            *)
(***************************************************************************)
MaxGroups == 2

TraitKinds == {"none", "required", "forbidden", "both"}

\* --resource VCPU=1 [--required R<suffix>] [--forbidden F<suffix>]
GroupOptions(suffix, kind) ==
    <<<<"resources", <<"VCPU", "=", "1">>>>>>
    \o (IF kind \in {"required", "both"}
        THEN <<<<"required", <<"R">> \o suffix>>>> ELSE <<>>)
    \o (IF kind \in {"forbidden", "both"}
        THEN <<<<"forbidden", <<"F">> \o suffix>>>> ELSE <<>>)

\* --group 1 ... --group n, the g-th group of kind kinds[g]
NumberedGroups(n, kinds) ==
    LET Line[g \in 0..n] ==
            IF g = 0 THEN <<>>
            ELSE Line[g - 1] \o <<<<"group", ToStr(g)>>>>
                 \o GroupOptions(ToStr(g), kinds[g])
    IN  Line[n]

GroupLines ==
    {unnumbered \o numbered :
        unnumbered \in {<<>>} \cup {GroupOptions(<<>>, k) : k \in TraitKinds},
        numbered \in UNION {{NumberedGroups(n, kinds) :
                                kinds \in [1..n -> TraitKinds]} :
                            n \in 0..MaxGroups}}

\* the revisions around the gates of --forbidden (1.22) and --group (1.25)
GroupMinors == {21, 22, 24, 25, 39}

InitGroups ==
    /\ known = SUPPORTED_VERSIONS
    /\ requested \in {V(1, m) : m \in GroupMinors}
    /\ serverMax = V(1, 39)
    /\ pc = "init"
    /\ api_version = NoVersion
    /\ sent = <<>>
    /\ probe = 0
    /\ raised = NoRaise
    /\ gv = NoGv
    /\ cmp = NoCmp
    /\ ret = NoRet
    /\ deco = NoDeco
    /\ cmd = NoCmd
    /\ cols = NoCols
    /\ call = NoCall

NextGroups ==
    \/ negotiate_api_version
    \/ ListAllocationCandidate(GroupLines)

SpecGroups == InitGroups /\ [][NextGroups]_vars

\* the traits that the options dest of a group give, each after prefix
TraitsOf(group, dest, prefix) ==
    IF DictHas(group, dest)
    THEN {prefix \o DictGet(group, dest)[j] :
             j \in 1..Len(DictGet(group, dest))}
    ELSE {}

\* C30: for every request group of allocation candidate list the query
\* parameter 'required' with the suffix of the group holds every --required
\* trait of the group and every --forbidden trait of the group after '!',
\* and no trait of another group: giving both options in a group drops
\* neither the required nor the forbidden traits.
C30_TraitsOfEveryGroup ==
    (/\ cmd.name = "allocation candidate list"
     /\ cmd.status # "usage"
     /\ "groups" \in DOMAIN cmd.args) =>
        /\ cmd.error.exc # "KeyError"
        /\ Len(cmd.reqs) = 1 =>
               LET params == cmd.reqs[1].kwargs.params
                   groups == cmd.args.groups
               IN  \A i \in 1..Len(groups) :
                       LET key    == <<"required">> \o groups[i][1]
                           traits == TraitsOf(groups[i][2], "required", <<>>)
                                     \cup TraitsOf(groups[i][2], "forbidden",
                                                   <<"!">>)
                       IN  IF traits = {}
                           THEN ~DictHas(params, key)
                           ELSE /\ DictHas(params, key)
                                /\ Range(SplitBy(DictGet(params, key), ","))
                                       = traits

====
